---- MODULE Spec2Model ----
(***************************************************************************)
(* Telnet session engine of api-olt-telnet (class OltTelnetManager) and    *)
(* the HTTP routes that drive it.                                          *)
(*                                                                         *)
(* Text is modelled by TLA+ strings with the literals of the source; the   *)
(* JavaScript string methods the engine uses (includes, indexOf,           *)
(* lastIndexOf, substring, trim, endsWith) are the operators below, with   *)
(* JavaScript's 0-based indices.                                           *)
(***************************************************************************)
EXTENDS Integers, Sequences, FiniteSets, TLC

(***************************************************************************)
(* Bounds of the model.                                                    *)
(***************************************************************************)
\* data events that may pile up in the buffer before it is cleared
MaxChunks == 2
\* '--More--' markers the device sends for one command under Spec
MaxMarkers == 2
\* sendCommand calls made on one session
MaxCmds == 2
\* HTTP requests addressed to one session
MaxCalls == 2
\* text fragments of an input of the pure functions
MaxFrags == 3
\* sendCommand calls made on one session under SpecModes
MaxModeCmds == 3
\* disconnect() calls made in a row on one engine
MaxDisconnects == 2
\* data rows of a table handed to the formatter
MaxRows == 3

(***************************************************************************)
(* JavaScript string methods.                                              *)
(***************************************************************************)
\* String.prototype.substring(a, b)
Substring(s, a, b) == SubSeq(s, a + 1, b)

\* String.prototype.substring(a)
SubstringFrom(s, a) == SubSeq(s, a + 1, Len(s))

\* s.startsWith(t, i): t occurs in s at 0-based position i
OccursAt(s, t, i) == /\ i >= 0
                     /\ i + Len(t) <= Len(s)
                     /\ SubSeq(s, i + 1, i + Len(t)) = t

\* String.prototype.indexOf(t, from): -1 when t does not occur
IndexOfFrom(s, t, from) ==
  LET hits == {i \in from..(Len(s) - Len(t)) : OccursAt(s, t, i)}
  IN  IF hits = {} THEN -1 ELSE CHOOSE i \in hits : \A j \in hits : i <= j

\* String.prototype.indexOf(t)
IndexOf(s, t) == IndexOfFrom(s, t, 0)

\* String.prototype.lastIndexOf(t)
LastIndexOf(s, t) ==
  LET hits == {i \in 0..(Len(s) - Len(t)) : OccursAt(s, t, i)}
  IN  IF hits = {} THEN -1 ELSE CHOOSE i \in hits : \A j \in hits : i >= j

\* String.prototype.includes(t)
Includes(s, t) == IndexOf(s, t) # -1

\* String.prototype.endsWith(t)
EndsWith(s, t) == OccursAt(s, t, Len(s) - Len(t))

\* the white space String.prototype.trim removes
WhiteSpace == {" ", "\n", "\r", "\t"}

\* String.prototype.trim()
Trim(s) ==
  LET ink == {i \in 1..Len(s) : SubSeq(s, i, i) \notin WhiteSpace}
  IN  IF ink = {} THEN ""
      ELSE SubSeq(s, CHOOSE i \in ink : \A j \in ink : i <= j,
                     CHOOSE i \in ink : \A j \in ink : i >= j)

\* s.startsWith(t)
StartsWith(s, t) == OccursAt(s, t, 0)

\* the character of s at 0-based index i, as a text of length one
CharAt(s, i) == SubSeq(s, i + 1, i + 1)

\* the 0-based index of the first character of s at or after i that is (sp
\* TRUE) or is not (sp FALSE) white space, Len(s) if there is none
RECURSIVE Skip(_, _, _)
Skip(s, i, sp) ==
  IF i >= Len(s) THEN Len(s)
  ELSE IF (CharAt(s, i) \in WhiteSpace) = sp THEN i
  ELSE Skip(s, i + 1, sp)

\* s.split('\n')
RECURSIVE SplitLines(_)
SplitLines(s) ==
  LET i == IndexOf(s, "\n")
  IN  IF i = -1 THEN <<s>>
      ELSE <<Substring(s, 0, i)>> \o SplitLines(SubstringFrom(s, i + 1))

\* s.split(/\s+/) of a text without white space at its ends
RECURSIVE SplitWords(_)
SplitWords(s) ==
  LET i == Skip(s, 0, TRUE)
  IN  IF i = Len(s) THEN <<s>>
      ELSE <<Substring(s, 0, i)>>
           \o SplitWords(SubstringFrom(s, Skip(s, i, FALSE)))

\* lines.filter(line => line.trim() !== '')
RECURSIVE NonBlank(_)
NonBlank(lines) ==
  IF lines = <<>> THEN <<>>
  ELSE (IF Trim(lines[1]) # "" THEN <<lines[1]>> ELSE <<>>)
       \o NonBlank(SubSeq(lines, 2, Len(lines)))

\* s with every occurrence of t removed, left to right
RECURSIVE Remove(_, _)
Remove(s, t) ==
  LET i == IndexOf(s, t)
  IN  IF i = -1 THEN s
      ELSE Substring(s, 0, i) \o Remove(SubstringFrom(s, i + Len(t)), t)

\* s.replace(/\r\n/g, '\n')
RECURSIVE ReplaceCrLf(_)
ReplaceCrLf(s) ==
  LET i == IndexOf(s, "\r\n")
  IN  IF i = -1 THEN s
      ELSE Substring(s, 0, i) \o "\n" \o ReplaceCrLf(SubstringFrom(s, i + 2))

(***************************************************************************)
(* The literals of the engine.                                             *)
(***************************************************************************)
\* handleData: the prompts that ask for the user name
LoginPrompts == {"Username:", "Login:"}

\* handleData: the prompt that asks for a password
PasswordPrompt == "Password:"

\* handleData: the pagination marker
MoreMarker == "--More--"

\* detectLoginSuccess: successPrompts
successPrompts == <<">", "#", "$">>

\* detectLoginFailure: failureMessages
failureMessages == <<"Login incorrect", "Authentication failed",
                     "Login failed", "Invalid username or password">>

\* detectCommandPrompt and extractCommandResponse: prompts, in the order of
\* the array literal
prompts == <<">", "#", "(config)#", "(config-if)#">>

\* the messages of the errors the engine raises
ErrConnectTimeout == "Timeout de conexión"
ErrAuth == "Credenciales incorrectas"
ErrNoSession == "No hay una sesión activa"
ErrCommandTimeout == "Timeout esperando respuesta al comando"
ErrSocket == "socket error"

\* the sentinel results of enterEnableMode and enterConfigMode
AlreadyEnabled == "Ya en modo privilegiado"
AlreadyConfig == "Ya en modo configuración"

\* maxPages, the page ceiling set by the constructor
maxPages == 100

(***************************************************************************)
(* The pure helpers of OltTelnetManager, as functions of the fields they   *)
(* read.                                                                   *)
(***************************************************************************)
\* variants of the helpers below, each with one deliberate fault
detectLoginSuccessOnlyAngle(buf) == EndsWith(Trim(buf), ">")

detectLoginFailureOnlyFirst(buf) == Includes(buf, failureMessages[1])

updateCurrentPromptShortFirst(buf, oldPrompt, oldConfig) ==
  LET b == Trim(buf)
  IN  IF EndsWith(b, "#")
      THEN [prompt |-> "#", config |-> oldConfig]
      ELSE IF EndsWith(b, ">")
      THEN [prompt |-> ">", config |-> oldConfig]
      ELSE [prompt |-> oldPrompt, config |-> oldConfig]

\* successPrompts.some(prompt => this.buffer.trim().endsWith(prompt))
detectLoginSuccess(buf) ==
  \E i \in 1..Len(successPrompts) : EndsWith(Trim(buf), successPrompts[i])

\* failureMessages.some(msg => this.buffer.includes(msg))
detectLoginFailure(buf) ==
  \E i \in 1..Len(failureMessages) : Includes(buf, failureMessages[i])

\* prompts.some(prompt => this.buffer.trim().endsWith(prompt))
detectCommandPrompt(buf) ==
  \E i \in 1..Len(prompts) : EndsWith(Trim(buf), prompts[i])

\* extractCommandResponse, first step: drop everything up to and including
\* the first newline after the first occurrence of lastCommand
StripEcho(response, lastCmd) ==
  LET commandEchoIndex == IndexOf(response, lastCmd)
      newlineAfterCommand == IndexOfFrom(response, "\n", commandEchoIndex)
  IN  IF commandEchoIndex # -1 /\ newlineAfterCommand # -1
      THEN SubstringFrom(response, newlineAfterCommand + 1)
      ELSE response

\* extractCommandResponse, the while loop: drop each '--More--' and the text
\* up to the next newline (or to the end when there is none)
RECURSIVE StripMore(_)
StripMore(response) ==
  LET moreIndex == IndexOf(response, MoreMarker)
      nextNewline == IndexOfFrom(response, "\n", moreIndex)
  IN  IF moreIndex = -1 THEN response
      ELSE IF nextNewline # -1
           THEN StripMore(Substring(response, 0, moreIndex)
                          \o SubstringFrom(response, nextNewline + 1))
           ELSE Substring(response, 0, moreIndex)

\* extractCommandResponse, the for loop over prompts: the FIRST prompt of the
\* array that the trimmed text ends with is cut at its last occurrence
StripPrompt(response) ==
  LET hits == {i \in 1..Len(prompts) : EndsWith(Trim(response), prompts[i])}
      first == CHOOSE i \in hits : \A j \in hits : i <= j
  IN  IF hits = {} THEN response
      ELSE Substring(response, 0, LastIndexOf(response, prompts[first]))

\* extractCommandResponse(inputBuffer) of the engine with pagination
\* (inputBuffer || this.buffer: an empty argument falls back to the buffer)
extractCommandResponse(inputBuffer, buf, lastCmd) ==
  LET response == IF inputBuffer # "" THEN inputBuffer ELSE buf
  IN  Trim(StripPrompt(StripMore(StripEcho(response, lastCmd))))

\* extractCommandResponse() of src/services/OltTelnetManager.js (no
\* pagination step)
svcExtractCommandResponse(buf, lastCmd) ==
  Trim(StripPrompt(StripEcho(buf, lastCmd)))

\* updateCurrentPrompt of the engine with pagination: the new
\* (currentPrompt, inConfigMode) from the buffer and the old values
updateCurrentPrompt(buf, oldPrompt, oldConfig) ==
  LET b == Trim(buf)
  IN  IF EndsWith(b, "(config)#")
      THEN [prompt |-> "(config)#", config |-> TRUE]
      ELSE IF EndsWith(b, "(config-if)#")
      THEN [prompt |-> "(config-if)#", config |-> TRUE]
      ELSE IF EndsWith(b, "#")
      THEN [prompt |-> "#", config |-> oldConfig]
      ELSE IF EndsWith(b, ">")
      THEN [prompt |-> ">", config |-> oldConfig]
      ELSE [prompt |-> oldPrompt, config |-> oldConfig]

\* updateCurrentPrompt of src/services/OltTelnetManager.js: '#' and '>' are
\* tested before the two config prompts
svcUpdateCurrentPrompt(buf, oldPrompt, oldConfig) ==
  LET b == Trim(buf)
  IN  IF EndsWith(b, "#")
      THEN [prompt |-> "#", config |-> oldConfig]
      ELSE IF EndsWith(b, ">")
      THEN [prompt |-> ">", config |-> oldConfig]
      ELSE IF EndsWith(b, "(config)#")
      THEN [prompt |-> "(config)#", config |-> TRUE]
      ELSE IF EndsWith(b, "(config-if)#")
      THEN [prompt |-> "(config-if)#", config |-> TRUE]
      ELSE [prompt |-> oldPrompt, config |-> oldConfig]

(***************************************************************************)
(* The response formatter (utils/responseFormatter.js).  Texts are over    *)
(* the characters a TLA+ string can hold: of the characters cleanResponse  *)
(* removes, the form feed stands for the control characters.               *)
(***************************************************************************)
\* cleanResponse(response)
cleanResponse(response) == Remove(ReplaceCrLf(response), "\f")

\* command.match(/show int(erface)?\s+\S+/)
MatchShowInt(c) ==
  \E i \in 0..Len(c) :
     /\ OccursAt(c, "show int", i)
     /\ \E j \in {i + 8} \cup (IF OccursAt(c, "erface", i + 8)
                               THEN {i + 14} ELSE {}) :
           /\ j < Len(c)
           /\ CharAt(c, j) \in WhiteSpace
           /\ Skip(c, j, FALSE) < Len(c)

\* command.match(/show\s+(\S+\s+)?table/)
MatchShowTable(c) ==
  \E i \in 0..Len(c) :
     /\ OccursAt(c, "show", i)
     /\ i + 4 < Len(c)
     /\ CharAt(c, i + 4) \in WhiteSpace
     /\ LET e == Skip(c, i + 4, FALSE)
            w == Skip(c, e, TRUE)
        IN  \/ OccursAt(c, "table", e)
            \/ OccursAt(c, "table", Skip(c, w, FALSE))

\* the function formatResponse hands the response of command to: its
\* if / else-if chain
Dispatch(command) ==
  IF Includes(command, "show mac address-table") THEN "formatMacAddressTable"
  ELSE IF Includes(command, "show interface") \/ MatchShowInt(command)
  THEN "formatInterfaceInfo"
  ELSE IF Includes(command, "show running-config") THEN "formatRunningConfig"
  ELSE IF Includes(command, "show onu") THEN "formatOnuInfo"
  ELSE IF MatchShowTable(command) THEN "formatGenericTable"
  ELSE IF StartsWith(command, "show ") THEN "detectAndFormatTable"
  ELSE "none"

\* line.match(/^\s*[\-=]{3,}/)
SepStart(line) ==
  LET e == Skip(line, 0, FALSE)
  IN  /\ e + 3 <= Len(line)
      /\ \A k \in e..(e + 2) : CharAt(line, k) \in {"-", "="}

\* line.match(/\s+[\-=]{3,}\s+/)
SepMid(line) ==
  \E i \in 0..(Len(line) - 1) : \E j \in 0..(Len(line) - 1) :
     /\ j >= i + 4
     /\ CharAt(line, i) \in WhiteSpace
     /\ CharAt(line, j) \in WhiteSpace
     /\ \A k \in (i + 1)..(j - 1) : CharAt(line, k) \in {"-", "="}

\* s.split(/\s{2,}/) of a text without white space at its ends
RECURSIVE SplitWide(_)
SplitWide(s) ==
  LET gaps == {i \in 0..(Len(s) - 2) :
                 CharAt(s, i) \in WhiteSpace /\ CharAt(s, i + 1) \in WhiteSpace}
  IN  IF gaps = {} THEN <<s>>
      ELSE LET i == CHOOSE g \in gaps : \A h \in gaps : g <= h
           IN  <<Substring(s, 0, i)>>
               \o SplitWide(SubstringFrom(s, Skip(s, i, FALSE)))

\* line.substring(a, b)
JsSubstring(line, a, b) ==
  LET Clamp(x) == IF x < 0 THEN 0 ELSE IF x > Len(line) THEN Len(line) ELSE x
      lo == IF Clamp(a) <= Clamp(b) THEN Clamp(a) ELSE Clamp(b)
      hi == IF Clamp(a) <= Clamp(b) THEN Clamp(b) ELSE Clamp(a)
  IN  Substring(line, lo, hi)

\* a row object: keys[j] set to values[j] for j = 1, 2, ... in turn, a later
\* assignment to a key replacing an earlier one
Row(keys, values) ==
  [k \in {keys[j] : j \in 1..Len(keys)} |->
     values[CHOOSE j \in 1..Len(keys) :
              keys[j] = k /\ \A h \in 1..Len(keys) : keys[h] = k => h <= j]]

\* formatGenericTable: the loop that looks for the header line and the
\* separator line, from line i (1-based) on; 0 stands for -1
RECURSIVE ScanTable(_, _, _, _)
ScanTable(lines, i, headerLine, separatorLine) ==
  IF i > Len(lines)
  THEN [headerLine |-> headerLine, separatorLine |-> separatorLine]
  ELSE LET h == IF headerLine = 0
                   /\ Len(SplitWords(Trim(lines[i]))) > 1
                   /\ ~Includes(lines[i], "----")
                THEN i ELSE headerLine
       IN  IF SepStart(lines[i]) \/ SepMid(lines[i])
           THEN IF h # 0 /\ i > h
                THEN [headerLine |-> h, separatorLine |-> i]
                ELSE ScanTable(lines, i + 1, h, i)
           ELSE ScanTable(lines, i + 1, h, separatorLine)

\* formatGenericTable: the 0-based columns of the headers in the header line
RECURSIVE ColumnIndices(_, _, _)
ColumnIndices(line, headers, startIndex) ==
  IF headers = <<>> THEN <<>>
  ELSE LET index == IndexOfFrom(line, headers[1], startIndex)
           rest == SubSeq(headers, 2, Len(headers))
       IN  IF index # -1
           THEN <<index>> \o ColumnIndices(line, rest,
                                           index + Len(headers[1]))
           ELSE ColumnIndices(line, rest, startIndex)

\* formatGenericTable and detectTableByAlignment: the data rows of the
\* lines from line i (1-based) on, cut at the columns cols (the last one
\* running to the end of the line) and keyed by keys
RECURSIVE DataRows(_, _, _, _)
DataRows(lines, i, keys, cols) ==
  IF i > Len(lines) THEN <<>>
  ELSE IF Trim(lines[i]) = "" \/ SepStart(lines[i])
  THEN DataRows(lines, i + 1, keys, cols)
  ELSE LET line == lines[i]
           Start(j) == IF j <= Len(cols) THEN cols[j] ELSE 0
           End(j) == IF j < Len(cols) THEN cols[j + 1] ELSE Len(line)
           values == [j \in 1..Len(keys) |->
                        IF Start(j) < Len(line)
                        THEN Trim(JsSubstring(line, Start(j), End(j)))
                        ELSE ""]
       IN  <<Row(keys, values)>> \o DataRows(lines, i + 1, keys, cols)

\* detectTableByAlignment: the 0-based columns at which the words of a line
\* start, a word being a run of characters other than the space
WordStarts(line) ==
  LET starts == {j \in 0..(Len(line) - 1) :
                   /\ CharAt(line, j) # " "
                   /\ j = 0 \/ CharAt(line, j - 1) = " "}
      RECURSIVE Sorted(_)
      Sorted(S) == IF S = {} THEN <<>>
                   ELSE LET m == CHOOSE x \in S : \A y \in S : x <= y
                        IN  <<m>> \o Sorted(S \ {m})
  IN  Sorted(starts)

\* lines.join('\n')
RECURSIVE Join(_)
Join(lines) ==
  IF lines = <<>> THEN ""
  ELSE IF Len(lines) = 1 THEN lines[1]
  ELSE lines[1] \o "\n" \o Join(SubSeq(lines, 2, Len(lines)))

\* detectTableByAlignment(lines)
detectTableByAlignment(lines) ==
  LET sample == 1..(IF Len(lines) < 10 THEN Len(lines) ELSE 10)
      patterned == {i \in sample : Len(WordStarts(lines[i])) > 1}
  IN  IF patterned = {}
      THEN [by |-> "detectTableByAlignment", raw |-> Join(lines),
            hasData |-> FALSE, data |-> <<>>]
      ELSE LET best == CHOOSE i \in patterned :
                          \A k \in patterned :
                             \/ Len(WordStarts(lines[k]))
                                  < Len(WordStarts(lines[i]))
                             \/ /\ Len(WordStarts(lines[k]))
                                     = Len(WordStarts(lines[i]))
                                /\ i <= k
               bestPattern == WordStarts(lines[best])
               first == 1..(IF Len(lines) < 5 THEN Len(lines) ELSE 5)
               texty == {i \in first :
                           LET t == Trim(lines[i])
                           IN  Len(t) > 0
                               /\ CharAt(t, 0) \notin
                                    {"0", "1", "2", "3", "4", "5", "6", "7",
                                     "8", "9"}}
               headerLine == IF texty = {} THEN 1
                             ELSE CHOOSE i \in texty : \A k \in texty : i <= k
               Header(j) ==
                 Trim(JsSubstring(lines[headerLine], bestPattern[j],
                                  IF j < Len(bestPattern)
                                  THEN bestPattern[j + 1]
                                  ELSE Len(lines[headerLine])))
               RECURSIVE Headers(_)
               Headers(j) ==
                 IF j > Len(bestPattern) THEN <<>>
                 ELSE (IF Header(j) # "" THEN <<Header(j)>> ELSE <<>>)
                      \o Headers(j + 1)
           IN  [by |-> "detectTableByAlignment", raw |-> Join(lines),
                hasData |-> TRUE,
                data |-> DataRows(lines, headerLine + 1, Headers(1),
                                  bestPattern)]

\* formatGenericTable(response); the text of the formatted field is not
\* part of the value modelled
formatGenericTable(response) ==
  LET lines == NonBlank(SplitLines(response))
      found == ScanTable(lines, 1, 0, 0)
  IN  IF found.headerLine = 0 \/ found.separatorLine = 0
      THEN detectTableByAlignment(lines)
      ELSE LET header == lines[found.headerLine]
               headers == SplitWide(Trim(header))
               keys == [j \in 1..Len(headers) |-> Trim(headers[j])]
           IN  [by |-> "formatGenericTable", raw |-> response,
                hasData |-> TRUE,
                data |-> DataRows(lines, found.separatorLine + 1, keys,
                                  ColumnIndices(header, headers, 0))]

\* detectAndFormatTable(response)
detectAndFormatTable(response) ==
  LET lines == NonBlank(SplitLines(response))
      TwoWords(line) == Len(SplitWords(Trim(line))) > 1
      hasHeaderSeparator ==
        \E i \in 1..Len(lines) : SepStart(lines[i]) \/ SepMid(lines[i])
      hasConsistentSpacing ==
        \E i \in 1..Len(lines) : Len(SplitWide(Trim(lines[i]))) >= 3
      hasColumnAlignment ==
        /\ Len(lines) > 3
        /\ \A i \in 1..3 : TwoWords(lines[i])
        /\ IndexOf(lines[1], " ") = IndexOf(lines[2], " ")
  IN  IF hasHeaderSeparator \/ hasConsistentSpacing \/ hasColumnAlignment
      THEN formatGenericTable(response)
      ELSE [by |-> "detectAndFormatTable", raw |-> response,
            formatted |-> response, hasData |-> FALSE, data |-> <<>>]

\* formatMacAddressTable that never joins 'GPON' with what follows it, a
\* deliberate fault
MacEntrySplit(fields) ==
  [vlan |-> fields[1], macAddress |-> fields[2], type |-> fields[3],
   port |-> fields[4], state |-> fields[Len(fields)]]

\* formatMacAddressTable: the entry made of the fields of a data line
MacEntry(fields) ==
  [vlan |-> fields[1], macAddress |-> fields[2], type |-> fields[3],
   port |-> IF fields[4] = "GPON" /\ Len(fields) >= 6
            THEN fields[4] \o " " \o fields[5] ELSE fields[4],
   state |-> fields[Len(fields)]]

\* formatMacAddressTable: the loop over the lines
RECURSIVE MacEntries(_, _)
MacEntries(lines, isDataSection) ==
  IF lines = <<>> THEN <<>>
  ELSE LET line == lines[1]
           rest == SubSeq(lines, 2, Len(lines))
           fields == SplitWords(Trim(line))
       IN  IF Includes(line, "----   --------------")
           THEN MacEntries(rest, TRUE)
           ELSE IF ~isDataSection
                   \/ Includes(line, "------------------")
                   \/ Includes(line, "Mac Address Table")
                   \/ Includes(line, "Vlan")
                   \/ Includes(line, "Total Addresses Found")
                   \/ Len(fields) < 5
           THEN MacEntries(rest, isDataSection)
           ELSE <<MacEntry(fields)>> \o MacEntries(rest, isDataSection)

\* formatMacAddressTable(response); the text of the formatted field is not
\* part of the value modelled
formatMacAddressTable(response) ==
  LET cleaned == cleanResponse(response)
  IN  [by |-> "formatMacAddressTable", raw |-> cleaned, hasData |-> TRUE,
       data |-> MacEntries(NonBlank(SplitLines(cleaned)), FALSE)]

\* formatResponse(command, response): the function named to applied as
\* formatResponse applies it; of formatInterfaceInfo, formatRunningConfig
\* and formatOnuInfo only the call is modelled
Extractor(to, response) ==
  LET cleanedResponse == cleanResponse(response)
  IN  IF to = "formatMacAddressTable" THEN formatMacAddressTable(response)
      ELSE IF to = "formatGenericTable"
      THEN formatGenericTable(cleanedResponse)
      ELSE IF to = "detectAndFormatTable"
      THEN detectAndFormatTable(cleanedResponse)
      ELSE IF to = "none"
      THEN [by |-> "none", raw |-> cleanedResponse,
            formatted |-> cleanedResponse, hasData |-> FALSE, data |-> <<>>]
      ELSE [by |-> to, raw |-> cleanedResponse]

formatResponse(command, response) == Extractor(Dispatch(command), response)

(***************************************************************************)
(* State.                                                                  *)
(***************************************************************************)
VARIABLES
  impl,                  \* the module loaded: "index" (src/index.js, with
                         \* pagination) or "services" (src/services)
  sock,                  \* this.client: "null", "connecting", "open",
                         \* "ended", "errored", "destroyed", "closed"
  buffer,                \* this.buffer
  connected,             \* this.connected
  loggedIn,              \* this.loggedIn
  inConfigMode,          \* this.inConfigMode
  currentPrompt,         \* this.currentPrompt
  waitingForResponse,    \* this.waitingForResponse
  responseResolver,      \* this.responseResolver: 0 (null) or the command
                         \* whose promise the closure settles
  enablePassword,        \* this.enablePassword
  lastCommand,           \* this.lastCommand
  accumulatedResponse,   \* this.accumulatedResponse
  pageCount,             \* this.pageCount
  currentCommandTimeout, \* this.currentCommandTimeout: 0 or the command
                         \* whose timer it names
  connTimer,             \* connectionTimeoutId: "none", "armed",
                         \* "cancelled", "fired"
  connectPromise,        \* the promise connect returned
  cmds,                  \* the promises sendCommand returned, with their
                         \* timers, in call order
  calls,                 \* the HTTP requests addressed to the session
  deleted,               \* POST /disconnect removed the session from
                         \* activeSessions
  out,                   \* what the last step wrote to the socket
  settled,               \* the sendCommand promise the last step settled,
                         \* and the raw text or the error it settled with
  answered,              \* the HTTP response the last step sent
  chunks,                \* data events held in the buffer
  disconnects,           \* disconnect() calls made in a row, the last
                         \* step being one of them
  formatted,             \* what responseFormatter.formatResponse did in the
                         \* last step: "" (not called), "ok" (returned)
                         \* or "threw"
  loginTrace,            \* the data events of the login so far, while they
                         \* follow Login, Password, text, '#'
  loginWrites,           \* the first writes of the login in progress
  pgTrace,               \* the response to the last command so far, while
                         \* it is pages of text separated by markers
  spaces,                \* continuation spaces written for the last command
  fnPc,                  \* pure-function runs: "none", "in", "done"
  fnOut,                 \* pure-function runs: the value returned
  fnIn                   \* formatter runs: the command and the raw response

engineVars == <<buffer, connected, loggedIn, inConfigMode, currentPrompt,
                waitingForResponse, responseResolver, enablePassword,
                lastCommand, accumulatedResponse, pageCount,
                currentCommandTimeout>>
envVars == <<impl, sock, connTimer, connectPromise, cmds, calls, deleted,
             out, settled, answered, chunks, disconnects, formatted>>
ghostVars == <<loginTrace, loginWrites, pgTrace, spaces>>
fnVars == <<fnPc, fnOut, fnIn>>
vars == <<engineVars, envVars, ghostVars, fnVars>>

(***************************************************************************)
(* Inputs.                                                                 *)
(***************************************************************************)
\* the credentials POST /connect passes to connect
Username == "admin"
Password == "secret"
EnablePassword == "enpass"

\* the command texts POST /send-command passes to sendCommand
Commands == {"show"}

\* what the device may send in one data event before the login succeeded
LoginVocabulary == {"Login:", "Username:", "Password:", ">", "#", "$",
                    "a\n",
                    "Login incorrect", "Authentication failed",
                    "Login failed", "Invalid username or password"}

\* what a device that greets with a prompt sends before the login succeeded
Greeting == {">", "#"}

\* the texts of a page of output
PageTexts == {"a\n"}

\* what the device may send in one data event after the login, besides the
\* echo of the last command
CommandVocabulary == PageTexts \cup {">", "#", "(config)#", "--More--",
                                     "Password:"}

\* a plain device: a line of text, and the prompt '#'
PlainVocabulary == {"a\n", "#", "--More--"}

\* a device with privilege levels: the prompts, and the request for the
\* enable password
ModeVocabulary == {">", "#", "(config)#", "Password:"}

\* a device that pages without end: markers, and a prompt
PagingVocabulary == {"--More--", "#"}

\* the echo of the command last written, followed by a page of output
FirstPage == "a\n"
Echo == IF lastCommand = "" THEN {} ELSE {lastCommand \o "\n" \o FirstPage}

\* no formatter run
NoInput == [command |-> "", response |-> ""]

\* no promise settled in the step
NoSettle == [cmd |-> 0, st |-> "", val |-> ""]

NoStatus == [connected |-> FALSE, loggedIn |-> FALSE,
             inConfigMode |-> FALSE, currentPrompt |-> ""]

\* no HTTP response sent in the step
NoAnswer == [call |-> 0, success |-> FALSE, message |-> "",
             status |-> NoStatus]

\* getStatus() on the object's state t
getStatus(t) == [connected |-> t.connected, loggedIn |-> t.loggedIn,
                 inConfigMode |-> t.inConfigMode,
                 currentPrompt |-> t.currentPrompt]

\* isInConfigMode() on the object's state t
isInConfigMode(t) == t.inConfigMode

(***************************************************************************)
(* Init: the constructor has run; nothing was requested yet.               *)
(***************************************************************************)
InitSession ==
  /\ sock = "null"
  /\ buffer = ""
  /\ connected = FALSE
  /\ loggedIn = FALSE
  /\ inConfigMode = FALSE
  /\ currentPrompt = ""
  /\ waitingForResponse = FALSE
  /\ responseResolver = 0
  /\ enablePassword = ""
  /\ lastCommand = ""
  /\ accumulatedResponse = ""
  /\ pageCount = 0
  /\ currentCommandTimeout = 0
  /\ connTimer = "none"
  /\ connectPromise = [st |-> "none", val |-> ""]
  /\ cmds = <<>>
  /\ calls = <<>>
  /\ deleted = FALSE
  /\ out = <<>>
  /\ settled = NoSettle
  /\ answered = NoAnswer
  /\ chunks = 0
  /\ disconnects = 0
  /\ formatted = ""
  /\ loginTrace = "off"
  /\ loginWrites = <<>>
  /\ pgTrace = [st |-> "off", text |-> "", k |-> 0]
  /\ spaces = 0

InitEngine ==
  /\ InitSession
  /\ fnPc = "none"
  /\ fnOut = ""
  /\ fnIn = NoInput

Init == impl = "index" /\ InitEngine

InitSvc == impl = "services" /\ InitEngine

(***************************************************************************)
(* The handlers, as functions from the object's state to its next state.   *)
(* A state t is the record of the fields below; out, settled and answered  *)
(* collect what the step writes, settles and answers.                      *)
(***************************************************************************)
This ==
  [sock |-> sock, buffer |-> buffer, connected |-> connected,
   loggedIn |-> loggedIn, inConfigMode |-> inConfigMode,
   currentPrompt |-> currentPrompt,
   waitingForResponse |-> waitingForResponse,
   responseResolver |-> responseResolver, enablePassword |-> enablePassword,
   lastCommand |-> lastCommand, accumulatedResponse |-> accumulatedResponse,
   pageCount |-> pageCount, currentCommandTimeout |-> currentCommandTimeout,
   connTimer |-> connTimer, connectPromise |-> connectPromise,
   cmds |-> cmds, out |-> <<>>, settled |-> NoSettle, answered |-> NoAnswer,
   disconnects |-> 0, formatted |-> "", formatFails |-> FALSE,
   username |-> Username, password |-> Password]

Install(t) ==
  /\ sock' = t.sock
  /\ buffer' = t.buffer
  /\ connected' = t.connected
  /\ loggedIn' = t.loggedIn
  /\ inConfigMode' = t.inConfigMode
  /\ currentPrompt' = t.currentPrompt
  /\ waitingForResponse' = t.waitingForResponse
  /\ responseResolver' = t.responseResolver
  /\ enablePassword' = t.enablePassword
  /\ lastCommand' = t.lastCommand
  /\ accumulatedResponse' = t.accumulatedResponse
  /\ pageCount' = t.pageCount
  /\ currentCommandTimeout' = t.currentCommandTimeout
  /\ connTimer' = t.connTimer
  /\ connectPromise' = t.connectPromise
  /\ cmds' = t.cmds
  /\ out' = t.out
  /\ settled' = t.settled
  /\ answered' = t.answered
  /\ disconnects' = t.disconnects
  /\ formatted' = t.formatted

\* a promise settles once: resolve and reject of a settled promise do nothing
SettlePromise(p, st, val) ==
  IF p.st = "pending" THEN [p EXCEPT !.st = st, !.val = val] ELSE p

\* the promise of command i is resolved with the raw text val (st =
\* "resolved") or rejected with the error val (st = "rejected")
SettleCmd(t, i, st, val) ==
  IF t.cmds[i].st = "pending"
  THEN [t EXCEPT !.cmds[i].st = st,
                 !.cmds[i].err = IF st = "rejected" THEN val ELSE "",
                 !.settled = [cmd |-> i, st |-> st, val |-> val]]
  ELSE t

\* responseFormatter.formatResponse(command, text) as sendCommand of
\* src/index.js calls it: it returns, or it throws when t.formatFails says so
Format(t) ==
  IF impl = "index"
  THEN [t EXCEPT !.formatted = IF t.formatFails THEN "threw" ELSE "ok"]
  ELSE t

\* a resolver whose closure does not catch the formatter's exception, a
\* deliberate fault
CallResolverNoCatch(t, response) ==
  IF t.responseResolver # 0
  THEN IF t.formatFails /\ impl = "index"
       THEN Format(t)
       ELSE [SettleCmd(Format(t), t.responseResolver, "resolved", response)
               EXCEPT !.responseResolver = 0]
  ELSE t

\* this.responseResolver(response), then this.responseResolver = null; the
\* closure hands the raw text to the formatter inside try/catch and resolves
\* its own promise, with the formatter's result or with the raw text
CallResolver(t, response) ==
  IF t.responseResolver # 0
  THEN [SettleCmd(Format(t), t.responseResolver, "resolved", response)
          EXCEPT !.responseResolver = 0]
  ELSE t

\* clearTimeout(this.currentCommandTimeout); this.currentCommandTimeout = null
ClearCommandTimeout(t) ==
  IF t.currentCommandTimeout # 0
  THEN [t EXCEPT !.cmds[t.currentCommandTimeout].timer =
                    IF @ = "armed" THEN "cancelled" ELSE @,
                 !.currentCommandTimeout = 0]
  ELSE t

\* this.updateCurrentPrompt() on state t, p being the prompt derived
ApplyPrompt(t, p) ==
  [t EXCEPT !.currentPrompt = p.prompt, !.inConfigMode = p.config]

\* handleData, the branch taken while not logged in (the same in both
\* modules but for updateCurrentPrompt, whose result is p)
handleLogin(t, b, p) ==
  IF Includes(b, "Username:") \/ Includes(b, "Login:")
  THEN [t EXCEPT !.out = Append(@, t.username \o "\n"), !.buffer = ""]
  ELSE IF Includes(b, "Password:")
  THEN [t EXCEPT !.out = Append(@, t.password \o "\n"), !.buffer = ""]
  ELSE IF detectLoginSuccess(b)
  THEN [ApplyPrompt([t EXCEPT !.loggedIn = TRUE], p)
          EXCEPT !.connectPromise = SettlePromise(@, "resolved", ""),
                 !.buffer = ""]
  ELSE IF detectLoginFailure(b)
  THEN [t EXCEPT !.connectPromise = SettlePromise(@, "rejected", ErrAuth),
                 !.buffer = ""]
  ELSE [t EXCEPT !.buffer = b]

\* the 'Password:' branch answering whatever the last command was, a
\* deliberate fault
handleEnablePasswordAlways(t, b) ==
  [t EXCEPT !.out = Append(@, t.enablePassword \o "\n"), !.buffer = ""]

\* handleData, the 'Password:' branch of a command in flight
handleEnablePassword(t, b) ==
  IF Includes(t.lastCommand, "configure terminal")
     \/ Includes(t.lastCommand, "enable")
  THEN [t EXCEPT !.out = Append(@, t.enablePassword \o "\n"), !.buffer = ""]
  ELSE [t EXCEPT !.buffer = b]

\* handleData, the prompt branch of a command in flight
handlePrompt(t, b) ==
  LET t1 == ClearCommandTimeout(t)
      p == updateCurrentPrompt(b, t.currentPrompt, t.inConfigMode)
  IN  IF t.accumulatedResponse # ""
      THEN LET acc == t.accumulatedResponse \o b
               response == extractCommandResponse(acc, b, t.lastCommand)
           IN  [CallResolver(ApplyPrompt(t1, p), response)
                  EXCEPT !.accumulatedResponse = "", !.pageCount = 0,
                         !.waitingForResponse = FALSE, !.buffer = ""]
      ELSE LET response == extractCommandResponse("", b, t.lastCommand)
           IN  [CallResolver(ApplyPrompt(t1, p), response)
                  EXCEPT !.waitingForResponse = FALSE, !.buffer = ""]

\* handleData, the '--More--' branch of a command in flight
handleMore(t, b) ==
  IF t.pageCount + 1 > maxPages
  THEN [CallResolver(t, t.accumulatedResponse \o b)
          EXCEPT !.accumulatedResponse = "", !.pageCount = 0,
                 !.waitingForResponse = FALSE, !.buffer = ""]
  ELSE [t EXCEPT !.pageCount = @ + 1,
                 !.accumulatedResponse =
                    @ \o Substring(b, 0, IndexOf(b, MoreMarker)),
                 !.out = Append(@, " "),
                 !.buffer = ""]

\* a handleData that discards what arrives while no command is in flight, a
\* deliberate fault
handleDataDropsIdle(t, data) ==
  LET b == t.buffer \o data
  IN  IF ~t.loggedIn
      THEN handleLogin(t, b, updateCurrentPrompt(b, t.currentPrompt,
                                                 t.inConfigMode))
      ELSE IF t.waitingForResponse
      THEN IF detectCommandPrompt(b) THEN handlePrompt(t, b)
           ELSE IF Includes(b, MoreMarker) THEN handleMore(t, b)
           ELSE IF Includes(b, "Password:") THEN handleEnablePassword(t, b)
           ELSE [t EXCEPT !.buffer = b]
      ELSE [t EXCEPT !.buffer = ""]

\* handleData(data, username, password, resolve, reject) of src/index.js
handleData(t, data) ==
  LET b == t.buffer \o data
  IN  IF ~t.loggedIn
      THEN handleLogin(t, b, updateCurrentPrompt(b, t.currentPrompt,
                                                 t.inConfigMode))
      ELSE IF t.waitingForResponse
      THEN IF detectCommandPrompt(b) THEN handlePrompt(t, b)
           ELSE IF Includes(b, MoreMarker) THEN handleMore(t, b)
           ELSE IF Includes(b, "Password:") THEN handleEnablePassword(t, b)
           ELSE [t EXCEPT !.buffer = b]
      ELSE [t EXCEPT !.buffer = b]

\* handleData of src/services/OltTelnetManager.js
svcHandleData(t, data) ==
  LET b == t.buffer \o data
      p == svcUpdateCurrentPrompt(b, t.currentPrompt, t.inConfigMode)
  IN  IF ~t.loggedIn
      THEN handleLogin(t, b, p)
      ELSE IF t.waitingForResponse
      THEN IF detectCommandPrompt(b)
           THEN [CallResolver(ApplyPrompt(t, p),
                              svcExtractCommandResponse(b, t.lastCommand))
                   EXCEPT !.waitingForResponse = FALSE, !.buffer = ""]
           ELSE IF Includes(b, "Password:") THEN handleEnablePassword(t, b)
           ELSE [t EXCEPT !.buffer = b]
      ELSE [t EXCEPT !.buffer = b]

\* the promise sendCommand returns when there is no active session
RejectedCmd(command) ==
  [command |-> command, st |-> "rejected", err |-> ErrNoSession,
   timer |-> "none"]

\* the promise sendCommand returns after it wrote the command, and its timer
PendingCmd(command) ==
  [command |-> command, st |-> "pending", err |-> "", timer |-> "armed"]

\* sendCommand without its guard, a deliberate fault
sendCommandUnguarded(t, command) ==
  [t EXCEPT !.accumulatedResponse = "",
            !.pageCount = 0,
            !.lastCommand = command,
            !.waitingForResponse = TRUE,
            !.responseResolver = Len(t.cmds) + 1,
            !.buffer = "",
            !.out = Append(@, command \o "\n"),
            !.currentCommandTimeout = Len(t.cmds) + 1,
            !.cmds = Append(@, PendingCmd(command))]

\* sendCommand(command) of src/index.js: the promise and its timer are the
\* new last element of cmds
sendCommand(t, command) ==
  IF ~t.connected \/ ~t.loggedIn
  THEN [t EXCEPT !.cmds = Append(@, RejectedCmd(command)),
                 !.settled = [cmd |-> Len(t.cmds) + 1, st |-> "rejected",
                              val |-> ErrNoSession]]
  ELSE [t EXCEPT !.accumulatedResponse = "",
                 !.pageCount = 0,
                 !.lastCommand = command,
                 !.waitingForResponse = TRUE,
                 !.responseResolver = Len(t.cmds) + 1,
                 !.buffer = "",
                 !.out = Append(@, command \o "\n"),
                 !.currentCommandTimeout = Len(t.cmds) + 1,
                 !.cmds = Append(@, PendingCmd(command))]

\* sendCommand(command) of src/services/OltTelnetManager.js
svcSendCommand(t, command) ==
  IF ~t.connected \/ ~t.loggedIn
  THEN [t EXCEPT !.cmds = Append(@, RejectedCmd(command)),
                 !.settled = [cmd |-> Len(t.cmds) + 1, st |-> "rejected",
                              val |-> ErrNoSession]]
  ELSE [t EXCEPT !.lastCommand = command,
                 !.waitingForResponse = TRUE,
                 !.responseResolver = Len(t.cmds) + 1,
                 !.buffer = "",
                 !.out = Append(@, command \o "\n"),
                 !.cmds = Append(@, PendingCmd(command))]

\* the callback of the timer sendCommand of src/index.js armed for command i
commandTimeout(t, i) ==
  LET t1 == [t EXCEPT !.cmds[i].timer = "fired"]
  IN  IF ~t.waitingForResponse THEN t1
      ELSE [(IF t.accumulatedResponse # ""
             THEN SettleCmd(Format(t1), i, "resolved",
                            extractCommandResponse(t.accumulatedResponse,
                                                   t.buffer, t.lastCommand))
             ELSE SettleCmd(t1, i, "rejected", ErrCommandTimeout))
              EXCEPT !.waitingForResponse = FALSE,
                     !.responseResolver = 0,
                     !.accumulatedResponse = "",
                     !.pageCount = 0]

\* the callback of the timer sendCommand of src/services armed for command i
svcCommandTimeout(t, i) ==
  LET t1 == [t EXCEPT !.cmds[i].timer = "fired"]
  IN  IF ~t.waitingForResponse THEN t1
      ELSE [SettleCmd(t1, i, "rejected", ErrCommandTimeout)
              EXCEPT !.waitingForResponse = FALSE,
                     !.responseResolver = 0]

\* a log of handleData that prints the password it sends, a deliberate fault
handleDataLogLeaky(t, data) ==
  LET b == t.buffer \o data
  IN  IF ~t.loggedIn /\ ~Includes(b, "Username:") /\ ~Includes(b, "Login:")
         /\ Includes(b, "Password:")
      THEN [texts |-> <<data, b, t.password>>, nums |-> <<Len(data)>>]
      ELSE [texts |-> <<data, b>>, nums |-> <<Len(data)>>]

\* what the log lines of the data handler and handleData of src/index.js
\* print: the texts and the numbers their templates interpolate, in order
handleDataLog(t, data) ==
  LET b == t.buffer \o data
      a == handleData(t, data)
      head == [texts |-> <<data, b>>, nums |-> <<Len(data)>>]
      More(texts, nums) == [texts |-> head.texts \o texts,
                            nums |-> head.nums \o nums]
  IN  IF ~t.loggedIn
      THEN IF Includes(b, "Username:") \/ Includes(b, "Login:")
           THEN More(<<t.username>>, <<>>)
           ELSE IF Includes(b, "Password:") THEN head
           ELSE IF detectLoginSuccess(b) THEN More(<<a.currentPrompt>>, <<>>)
           ELSE head
      ELSE IF t.waitingForResponse
      THEN IF detectCommandPrompt(b)
           THEN LET acc == t.accumulatedResponse \o b
                    response ==
                      IF t.accumulatedResponse # ""
                      THEN extractCommandResponse(acc, b, t.lastCommand)
                      ELSE extractCommandResponse("", b, t.lastCommand)
                    command == IF t.responseResolver # 0
                               THEN <<t.cmds[t.responseResolver].command>>
                               ELSE <<>>
                IN  More(<<t.lastCommand, response, a.currentPrompt>>
                           \o command,
                         (IF t.accumulatedResponse # "" THEN <<Len(acc)>>
                          ELSE <<>>) \o <<Len(response)>>)
           ELSE IF Includes(b, MoreMarker)
           THEN IF t.pageCount + 1 > maxPages
                THEN More(<<t.lastCommand>>, <<maxPages>>)
                ELSE More(<<t.lastCommand>>,
                          <<a.pageCount, Len(a.accumulatedResponse)>>)
           ELSE IF Includes(b, "Password:")
           THEN More(<<t.lastCommand, t.lastCommand>>, <<>>)
           ELSE More(<<t.lastCommand>>, <<>>)
      ELSE head

\* what console.log of handleData of src/services prints
svcHandleDataLog(t, data) ==
  [texts |-> <<t.buffer \o data>>, nums |-> <<>>]

\* what the log lines of sendCommand print
sendCommandLog(t, command) ==
  IF ~t.connected \/ ~t.loggedIn THEN [texts |-> <<>>, nums |-> <<>>]
  ELSE [texts |-> <<command, command, command>>, nums |-> <<>>]

\* what the log lines of the timer callback of command i print
commandTimeoutLog(t, i) ==
  IF ~t.waitingForResponse THEN [texts |-> <<>>, nums |-> <<>>]
  ELSE IF t.accumulatedResponse # "" /\ impl = "index"
  THEN [texts |-> <<t.cmds[i].command>>,
        nums |-> <<Len(t.accumulatedResponse)>>]
  ELSE [texts |-> <<t.cmds[i].command>>, nums |-> <<>>]

DoHandleDataLog(t, data) ==
  IF impl = "index" THEN handleDataLog(t, data) ELSE svcHandleDataLog(t, data)

\* the module the routes loaded decides which method runs
DoHandleData(t, data) ==
  IF impl = "index" THEN handleData(t, data) ELSE svcHandleData(t, data)

DoSendCommand(t, command) ==
  IF impl = "index" THEN sendCommand(t, command)
  ELSE svcSendCommand(t, command)

DoCommandTimeout(t, i) ==
  IF impl = "index" THEN commandTimeout(t, i) ELSE svcCommandTimeout(t, i)

(***************************************************************************)
(* The routes' requests in flight (async functions between awaits).        *)
(***************************************************************************)
\* activeSessions[sessionId] exists: POST /connect stored the manager after
\* connect resolved, and POST /disconnect has not deleted it
Registered == connectPromise.st = "resolved" /\ ~deleted

\* a request whose awaited promise has settled: its continuation is a
\* microtask, which runs before any other event is handled
CanResume(k) ==
  /\ calls[k].st = "pending"
  /\ cmds[calls[k].cmd].st # "pending"

Runnable == \E k \in 1..Len(calls) : CanResume(k)

\* sendCommand calls the requests in flight 1..k have still to make
RECURSIVE Reserved(_)
Reserved(k) ==
  IF k = 0 THEN 0
  ELSE Reserved(k - 1)
       + (IF calls[k].st # "pending" THEN 0
          ELSE IF calls[k].pc = "cfgEnable" THEN 2
          ELSE IF calls[k].pc = "cfgConf" THEN 1
          ELSE 0)

Active == connected /\ loggedIn

\* sendCommand calls a new request of this kind makes
Need(kind) ==
  IF kind = "send" THEN 1
  ELSE IF kind = "enable"
  THEN (IF Active /\ ~(currentPrompt = "#" \/ inConfigMode) THEN 1 ELSE 0)
  ELSE IF inConfigMode THEN 1
  ELSE IF ~Active THEN 0
  ELSE IF currentPrompt # "#" THEN 3
  ELSE 2

NewCall(kind, command) ==
  [kind |-> kind, command |-> command, pc |-> "start", cmd |-> 0,
   st |-> "pending"]

\* the ghost state a sendCommand that wrote its command resets
TrackCommand(t) ==
  IF Len(t.cmds) > Len(cmds) /\ t.cmds[Len(t.cmds)].st = "pending"
  THEN /\ pgTrace' = [st |-> "start", text |-> "", k |-> 0]
       /\ spaces' = 0
       /\ chunks' = 0
  ELSE /\ UNCHANGED <<pgTrace, spaces>>
       /\ chunks' = IF t.buffer = "" THEN 0 ELSE chunks

(***************************************************************************)
(* Actions of the socket and the timers.                                   *)
(***************************************************************************)
\* POST /connect: new OltTelnetManager(), then connect(...) up to the
\* creation of the socket
Connect ==
  /\ sock = "null"
  /\ Install([This EXCEPT !.enablePassword = EnablePassword,
                          !.connTimer = "armed",
                          !.sock = "connecting",
                          !.connectPromise = [st |-> "pending", val |-> ""]])
  /\ loginTrace' = "fresh"
  /\ UNCHANGED <<impl, calls, deleted, chunks, loginWrites, pgTrace, spaces,
                 fnVars>>

\* the callback of net.createConnection: the TCP connection is established
TcpEstablished ==
  /\ sock = "connecting"
  /\ ~Runnable
  /\ Install([This EXCEPT !.connected = TRUE,
                          !.connTimer = IF @ = "armed" THEN "cancelled" ELSE @,
                          !.sock = "open"])
  /\ UNCHANGED <<impl, calls, deleted, chunks, ghostVars, fnVars>>

\* the callback of the connection timer
ConnectTimeout ==
  /\ connTimer = "armed"
  /\ ~Runnable
  /\ Install([This EXCEPT
        !.sock = IF @ \in {"connecting", "open", "ended"}
                 THEN "destroyed" ELSE @,
        !.connTimer = "fired",
        !.connectPromise = SettlePromise(@, "rejected", ErrConnectTimeout)])
  /\ UNCHANGED <<impl, calls, deleted, chunks, ghostVars, fnVars>>

\* client.on('error')
SocketError ==
  /\ sock \in {"connecting", "open", "ended"}
  /\ ~Runnable
  /\ Install([This EXCEPT
        !.sock = "errored",
        !.connTimer = IF @ = "armed" THEN "cancelled" ELSE @,
        !.connected = FALSE,
        !.connectPromise = SettlePromise(@, "rejected", ErrSocket)])
  /\ UNCHANGED <<impl, calls, deleted, chunks, ghostVars, fnVars>>

\* a close handler that forgets inConfigMode, a deliberate fault
SocketCloseKeepsConfig ==
  /\ sock \in {"open", "ended", "errored", "destroyed"}
  /\ ~Runnable
  /\ Install([This EXCEPT !.sock = "closed",
                          !.connected = FALSE,
                          !.loggedIn = FALSE])
  /\ UNCHANGED <<impl, calls, deleted, chunks, ghostVars, fnVars>>

\* client.on('close'): the device closed the connection, or the socket was
\* ended, destroyed or failed
SocketClose ==
  /\ sock \in {"open", "ended", "errored", "destroyed"}
  /\ ~Runnable
  /\ Install([This EXCEPT !.sock = "closed",
                          !.connected = FALSE,
                          !.loggedIn = FALSE,
                          !.inConfigMode = FALSE])
  /\ UNCHANGED <<impl, calls, deleted, chunks, ghostVars, fnVars>>

\* how the data event d continues the login the device is expected to run
NextLoginTrace(d) ==
  IF loggedIn THEN loginTrace
  ELSE IF loginTrace = "fresh" /\ d \in LoginPrompts THEN "L"
  ELSE IF loginTrace = "L" /\ d = PasswordPrompt THEN "LP"
  ELSE IF loginTrace = "LP" /\ d \in PageTexts THEN "LP"
  ELSE IF loginTrace = "LP" /\ d = "#" THEN "LPS"
  ELSE "off"

\* the writes of the login in progress, the first three of them
NextLoginWrites(t) ==
  IF t.loggedIn THEN <<>>
  ELSE LET w == loginWrites \o t.out
       IN  IF Len(w) > 3 THEN SubSeq(w, 1, 3) ELSE w

NoPages == [st |-> "off", text |-> "", k |-> 0]

\* how the data event d continues a paged response: the device echoes the
\* command, then sends pages of text, a marker after each but the last, and
\* a prompt
NextPgTrace(d) ==
  IF ~(loggedIn /\ waitingForResponse) \/ pgTrace.st \in {"off", "done"}
  THEN NoPages
  ELSE IF d \in Echo /\ pgTrace.st = "start"
  THEN [pgTrace EXCEPT !.st = "page", !.text = FirstPage]
  ELSE IF d \in PageTexts
  THEN [pgTrace EXCEPT !.st = "page", !.text = @ \o d]
  ELSE IF d = MoreMarker /\ pgTrace.st = "page"
  THEN [pgTrace EXCEPT !.st = "more", !.k = @ + 1]
  ELSE IF pgTrace.st = "page" /\ \E i \in 1..Len(prompts) : d = prompts[i]
  THEN [st |-> "done", text |-> "", k |-> 0]
  ELSE NoPages

Count(seq, x) == Cardinality({i \in 1..Len(seq) : seq[i] = x})

\* client.on('data') with the text d, the formatter failing or not
ReceiveAs(d, fails) ==
  /\ sock \in {"open", "ended"}
  /\ ~Runnable
  /\ chunks < MaxChunks
  /\ LET t == DoHandleData([This EXCEPT !.formatFails = fails], d)
     IN  /\ Install(t)
         /\ chunks' = IF t.buffer = "" THEN 0 ELSE chunks + 1
         /\ loginWrites' = NextLoginWrites(t)
         /\ spaces' = IF t.waitingForResponse
                      THEN spaces + Count(t.out, " ") ELSE 0
  /\ loginTrace' = NextLoginTrace(d)
  /\ pgTrace' = NextPgTrace(d)
  /\ UNCHANGED <<impl, calls, deleted, fnVars>>

\* client.on('data') with the text d and a formatter that does not fail
Receive(d) == ReceiveAs(d, FALSE)

\* a data event of the login dialogue
LoginData ==
  /\ ~loggedIn
  /\ \E d \in LoginVocabulary : Receive(d)

\* a data event of a device that greets with a prompt and sends at most
\* MaxMarkers markers per command
Data ==
  \E d \in (IF loggedIn THEN CommandVocabulary \cup Echo ELSE Greeting) :
     /\ d = MoreMarker => pageCount < MaxMarkers
     /\ Receive(d)

\* a data event of a device that logs the user in and then pages without end
PagingData ==
  \E d \in (IF loggedIn THEN PagingVocabulary ELSE {"#"}) : Receive(d)

\* the callback of the timer of command i, the formatter failing or not
CommandTimeoutAs(i, fails) ==
  /\ cmds[i].timer = "armed"
  /\ ~Runnable
  /\ LET t == DoCommandTimeout([This EXCEPT !.formatFails = fails], i)
     IN  /\ Install(t)
         /\ spaces' = IF t.waitingForResponse THEN spaces ELSE 0
         /\ pgTrace' = IF t.waitingForResponse THEN pgTrace ELSE NoPages
  /\ UNCHANGED <<impl, calls, deleted, chunks, loginTrace, loginWrites,
                 fnVars>>

\* the callback of the timer of command i with a formatter that does not
\* fail
CommandTimeout(i) == CommandTimeoutAs(i, FALSE)

CommandTimer == \E i \in 1..Len(cmds) : CommandTimeout(i)

(***************************************************************************)
(* Actions of the routes.                                                  *)
(***************************************************************************)
\* a request that ends: the route answers with the result and getStatus(),
\* or with the error's message
Finish(c, t, k, success, message) ==
  [call |-> [c EXCEPT !.pc = "done", !.st = "done"],
   t |-> [t EXCEPT !.answered =
            [call |-> k, success |-> success, message |-> message,
             status |-> IF success THEN getStatus(t) ELSE NoStatus]]]

\* a request that goes on to await the sendCommand call just made
Await(c, t, pc) == [call |-> [c EXCEPT !.pc = pc, !.cmd = Len(t.cmds)], t |-> t]

\* enterEnableMode without the test of the prompt, a deliberate fault
enterEnableModeAlways(c, t, k) ==
  IF ~t.connected \/ ~t.loggedIn
  THEN Finish(c, t, k, FALSE, ErrNoSession)
  ELSE Await(c, DoSendCommand(t, "enable"), "enable")

\* enterEnableMode() up to its first await, called by POST /enable
enterEnableMode(c, t, k) ==
  IF ~t.connected \/ ~t.loggedIn
  THEN Finish(c, t, k, FALSE, ErrNoSession)
  ELSE IF t.currentPrompt = "#" \/ t.inConfigMode
  THEN Finish(c, t, k, TRUE, AlreadyEnabled)
  ELSE Await(c, DoSendCommand(t, "enable"), "enable")

\* a call that returned at once with a sentinel string, having done nothing
Return(c, t) == [call |-> [c EXCEPT !.pc = "returned"], t |-> t]

\* enterConfigMode without the enable step, a deliberate fault
enterConfigModeNoEnable(c, t, k) ==
  IF ~t.connected \/ ~t.loggedIn
  THEN Finish(c, t, k, FALSE, ErrNoSession)
  ELSE IF t.inConfigMode
  THEN Return(c, t)
  ELSE Await(c, DoSendCommand(t, "configure terminal"), "cfgConf")

\* enterConfigMode() up to its first await, called by POST /send-command
\* when configMode is true and isInConfigMode() is false; its call of
\* enterEnableMode() finds currentPrompt # '#' and inConfigMode false again,
\* and goes on to sendCommand('enable')
enterConfigMode(c, t, k) ==
  IF ~t.connected \/ ~t.loggedIn
  THEN Finish(c, t, k, FALSE, ErrNoSession)
  ELSE IF t.inConfigMode
  THEN Return(c, t)
  ELSE IF t.currentPrompt # "#"
  THEN Await(c, DoSendCommand(t, "enable"), "cfgEnable")
  ELSE Await(c, DoSendCommand(t, "configure terminal"), "cfgConf")

\* the handler of request k, up to its first await
StartRoute(c, t, k) ==
  IF c.kind = "enable" THEN enterEnableMode(c, t, k)
  ELSE IF c.kind = "sendCfg" /\ ~isInConfigMode(t)
  THEN LET r == enterConfigMode(c, t, k)
       IN  IF r.call.pc = "returned"
           THEN Await(c, DoSendCommand(r.t, c.command), "cmd")
           ELSE r
  ELSE Await(c, DoSendCommand(t, c.command), "cmd")

\* a continuation that sends the requested command though entering config
\* mode failed, a deliberate fault
ResumeRouteIgnoresFailure(c, t, k) ==
  LET p == t.cmds[c.cmd]
  IN  IF p.st = "rejected" /\ c.pc \in {"cfgEnable", "cfgConf"}
      THEN Await(c, DoSendCommand(t, c.command), "cmd")
      ELSE IF p.st = "rejected" THEN Finish(c, t, k, FALSE, p.err)
      ELSE IF c.pc = "cfgEnable"
      THEN Await(c, DoSendCommand(t, "configure terminal"), "cfgConf")
      ELSE IF c.pc = "cfgConf"
      THEN Await(c, DoSendCommand([t EXCEPT !.inConfigMode = TRUE],
                                  c.command), "cmd")
      ELSE Finish(c, t, k, TRUE, "")

\* the continuation of request k, whose awaited sendCommand has settled, up
\* to its next await
ResumeRoute(c, t, k) ==
  LET p == t.cmds[c.cmd]
  IN  IF p.st = "rejected" THEN Finish(c, t, k, FALSE, p.err)
      ELSE IF c.pc = "cfgEnable"
      THEN Await(c, DoSendCommand(t, "configure terminal"), "cfgConf")
      ELSE IF c.pc = "cfgConf"
      THEN Await(c, DoSendCommand([t EXCEPT !.inConfigMode = TRUE],
                                  c.command), "cmd")
      ELSE Finish(c, t, k, TRUE, "")

\* POST /send-command (kind "send", or "sendCfg" with configMode: true) or
\* POST /enable (kind "enable") arrives for the session
RequestWithin(kind, command, maxCmds) ==
  /\ Registered
  /\ ~Runnable
  /\ Len(calls) < MaxCalls
  /\ Len(cmds) + Reserved(Len(calls)) + Need(kind) <= maxCmds
  /\ LET r == StartRoute(NewCall(kind, command), This, Len(calls) + 1)
     IN  /\ Install(r.t)
         /\ calls' = Append(calls, r.call)
         /\ TrackCommand(r.t)
  /\ UNCHANGED <<impl, deleted, loginTrace, loginWrites, fnVars>>

Request(kind, command) == RequestWithin(kind, command, MaxCmds)

\* a request arrives at any time
AnyRequest ==
  \E kind \in {"send", "sendCfg", "enable"} : \E command \in Commands :
     Request(kind, command)

\* a send-command request arrives when the previous ones were answered
SerialRequest ==
  /\ \A k \in 1..Len(calls) : calls[k].st # "pending"
  /\ \E command \in Commands : Request("send", command)

\* the microtask that continues request k
Resume(k) ==
  /\ CanResume(k)
  /\ LET r == ResumeRoute(calls[k], This, k)
     IN  /\ Install(r.t)
         /\ calls' = [calls EXCEPT ![k] = r.call]
         /\ TrackCommand(r.t)
  /\ UNCHANGED <<impl, deleted, loginTrace, loginWrites, fnVars>>

ResumeAny == \E k \in 1..Len(calls) : Resume(k)

\* disconnect() without its test of this.connected, a deliberate fault
disconnectUnguarded(t) ==
  [t EXCEPT !.out = (IF t.inConfigMode THEN <<"exit\n">> ELSE <<>>)
                    \o <<"exit\n">>,
            !.sock = "ended",
            !.connected = FALSE,
            !.loggedIn = FALSE,
            !.inConfigMode = FALSE,
            !.buffer = "",
            !.currentPrompt = ""]

\* disconnect()
disconnect(t) ==
  IF ~t.connected THEN t
  ELSE [t EXCEPT !.out = (IF t.inConfigMode THEN <<"exit\n">> ELSE <<>>)
                         \o <<"exit\n">>,
                 !.sock = "ended",
                 !.connected = FALSE,
                 !.loggedIn = FALSE,
                 !.inConfigMode = FALSE,
                 !.buffer = "",
                 !.currentPrompt = ""]

\* POST /disconnect: disconnect(), then delete activeSessions[sessionId]
Disconnect ==
  /\ Registered
  /\ ~Runnable
  /\ Install([disconnect(This) EXCEPT !.disconnects = disconnects + 1])
  /\ deleted' = TRUE
  /\ chunks' = IF connected THEN 0 ELSE chunks
  /\ UNCHANGED <<impl, calls, ghostVars, fnVars>>

\* disconnect() called on the engine by the code that holds it, at any time
\* and any number of times
CallDisconnect ==
  /\ ~Runnable
  /\ disconnects < MaxDisconnects
  /\ Install([disconnect(This) EXCEPT !.disconnects = disconnects + 1])
  /\ chunks' = IF connected THEN 0 ELSE chunks
  /\ UNCHANGED <<impl, calls, deleted, ghostVars, fnVars>>

(***************************************************************************)
(* Specifications.                                                         *)
(***************************************************************************)
\* the engine of src/index.js behind the routes, any device, any requests
Next ==
  \/ Connect
  \/ TcpEstablished
  \/ ConnectTimeout
  \/ SocketError
  \/ SocketClose
  \/ Data
  \/ CommandTimer
  \/ AnyRequest
  \/ ResumeAny
  \/ Disconnect

Spec == Init /\ [][Next]_vars

\* a data event of a device that greets with a prompt and answers commands
\* with a line of text and the prompt '#'
PlainData ==
  \E d \in (IF loggedIn THEN PlainVocabulary ELSE Greeting) :
     /\ d = MoreMarker => pageCount < MaxMarkers
     /\ Receive(d)

\* the engine of src/index.js behind the routes, with a plain device whose
\* socket may fail or close at any time
NextDrop ==
  \/ Connect
  \/ TcpEstablished
  \/ SocketError
  \/ SocketClose
  \/ PlainData
  \/ CommandTimer
  \/ AnyRequest
  \/ ResumeAny

SpecDrop == Init /\ [][NextDrop]_vars

\* a data event of a device with privilege levels: it greets with a prompt,
\* and answers commands with a prompt or with a request for the enable
\* password
ModeData ==
  \E d \in (IF loggedIn THEN ModeVocabulary ELSE Greeting) : Receive(d)

\* a request of any kind arrives when the previous ones were answered; a
\* send-command with configMode: true may take three commands
ModeRequest ==
  /\ \A k \in 1..Len(calls) : calls[k].st # "pending"
  /\ \E kind \in {"send", "sendCfg", "enable"} : \E command \in Commands :
        RequestWithin(kind, command, MaxModeCmds)

\* the engine of src/index.js behind the routes, with a device with
\* privilege levels and a caller that sends one request at a time
NextModes ==
  \/ Connect
  \/ TcpEstablished
  \/ ModeData
  \/ CommandTimer
  \/ ModeRequest
  \/ ResumeAny

SpecModes == Init /\ [][NextModes]_vars

\* the engine of src/index.js held by code that makes the routes' calls and
\* calls disconnect() when it likes, with a device with privilege levels
NextEngine ==
  \/ Connect
  \/ TcpEstablished
  \/ SocketClose
  \/ ModeData
  \/ CommandTimer
  \/ ModeRequest
  \/ ResumeAny
  \/ CallDisconnect

SpecEngine == Init /\ [][NextEngine]_vars

\* a data event of a plain device, handled with a formatter that may throw
FormatData ==
  \E d \in (IF loggedIn THEN PlainVocabulary ELSE Greeting) :
     /\ d = MoreMarker => pageCount < MaxMarkers
     /\ \E fails \in BOOLEAN : ReceiveAs(d, fails)

\* a command timer fires, with a formatter that may throw
FormatTimer ==
  \E i \in 1..Len(cmds) : \E fails \in BOOLEAN : CommandTimeoutAs(i, fails)

\* the engine of src/index.js behind the routes, one request at a time, with
\* a formatter that may throw on any text
NextFormat ==
  \/ Connect
  \/ TcpEstablished
  \/ FormatData
  \/ FormatTimer
  \/ SerialRequest
  \/ ResumeAny

SpecFormat == Init /\ [][NextFormat]_vars

\* connect alone, with a device that runs any login dialogue; the connection
\* timer fires when its window ends unless it was cancelled
NextLogin ==
  \/ Connect
  \/ TcpEstablished
  \/ ConnectTimeout
  \/ SocketError
  \/ SocketClose
  \/ LoginData

SpecLogin == Init /\ [][NextLogin]_vars /\ WF_vars(ConnectTimeout)

\* the engine of src/services behind the routes
SpecSvc == InitSvc /\ [][Next]_vars

\* the engine of src/index.js with a device that pages without end and a
\* caller that sends one command at a time
NextPaging ==
  \/ Connect
  \/ TcpEstablished
  \/ PagingData
  \/ CommandTimer
  \/ SerialRequest
  \/ ResumeAny

SpecPaging == Init /\ [][NextPaging]_vars /\ WF_vars(CommandTimer)

\* a data event of a device that echoes the command before anything else it
\* answers, and then pages without end
EchoData ==
  \/ /\ loggedIn /\ waitingForResponse
     /\ buffer = "" /\ accumulatedResponse = ""
     /\ \E d \in Echo : Receive(d)
  \/ PagingData

\* the engine of src/index.js with that device and a caller that sends one
\* command at a time
NextEcho ==
  \/ Connect
  \/ TcpEstablished
  \/ EchoData
  \/ CommandTimer
  \/ SerialRequest
  \/ ResumeAny

SpecEcho == Init /\ [][NextEcho]_vars

\* what the device answers to the command text c in one data event: the
\* echo, a line of output and the prompt
Reply(c) == c \o "\n" \o FirstPage \o "#"

\* the device answers, late, a command whose timer has already expired
LateReply ==
  \E i \in 1..Len(cmds) :
     /\ loggedIn
     /\ cmds[i].st = "rejected"
     /\ cmds[i].err = ErrCommandTimeout
     /\ Receive(Reply(cmds[i].command))

\* the engine of src/index.js behind the routes with a slow device, which
\* may answer a command after the command timed out
NextLate ==
  \/ Connect
  \/ TcpEstablished
  \/ ModeData
  \/ LateReply
  \/ CommandTimer
  \/ ModeRequest
  \/ ResumeAny

SpecLate == Init /\ [][NextLate]_vars

(***************************************************************************)
(* The pure helpers on their own: the buffer is any text of at most        *)
(* MaxFrags fragments, and one helper runs on it.                          *)
(***************************************************************************)
Fragments == {"a\n", " ", ">", "#", "(config)#", "(config-if)#", "show\n",
              "--More--"}

RECURSIVE Texts(_)
Texts(n) ==
  IF n = 0 THEN {""}
  ELSE LET T == Texts(n - 1)
       IN  T \cup {t \o f : t \in T, f \in Fragments}

InitPure ==
  /\ impl = "index"
  /\ sock = "open"
  /\ buffer \in Texts(MaxFrags)
  /\ connected = TRUE
  /\ loggedIn = TRUE
  /\ inConfigMode = FALSE
  /\ currentPrompt = ">"
  /\ waitingForResponse = TRUE
  /\ responseResolver = 1
  /\ enablePassword = EnablePassword
  /\ lastCommand = "show"
  /\ accumulatedResponse = ""
  /\ pageCount = 0
  /\ currentCommandTimeout = 1
  /\ connTimer = "cancelled"
  /\ connectPromise = [st |-> "resolved", val |-> ""]
  /\ cmds = <<PendingCmd("show")>>
  /\ calls = <<>>
  /\ deleted = FALSE
  /\ out = <<>>
  /\ settled = NoSettle
  /\ answered = NoAnswer
  /\ chunks = 0
  /\ disconnects = 0
  /\ formatted = ""
  /\ loginTrace = "off"
  /\ loginWrites = <<>>
  /\ pgTrace = NoPages
  /\ spaces = 0
  /\ fnPc = "in"
  /\ fnOut = ""
  /\ fnIn = NoInput

\* this.extractCommandResponse() of src/index.js on the buffer
Extract ==
  /\ fnPc = "in"
  /\ fnPc' = "extract"
  /\ fnOut' = extractCommandResponse("", buffer, lastCommand)
  /\ UNCHANGED <<engineVars, envVars, ghostVars, fnIn>>

\* this.extractCommandResponse() of src/services on the buffer
SvcExtract ==
  /\ fnPc = "in"
  /\ fnPc' = "svcExtract"
  /\ fnOut' = svcExtractCommandResponse(buffer, lastCommand)
  /\ UNCHANGED <<engineVars, envVars, ghostVars, fnIn>>

\* this.updateCurrentPrompt() of src/index.js on the buffer
Update ==
  /\ fnPc = "in"
  /\ fnPc' = "update"
  /\ Install(ApplyPrompt(This, updateCurrentPrompt(buffer, currentPrompt,
                                                   inConfigMode)))
  /\ UNCHANGED <<impl, calls, deleted, chunks, ghostVars, fnOut, fnIn>>

\* this.updateCurrentPrompt() of src/services on the buffer
SvcUpdate ==
  /\ fnPc = "in"
  /\ fnPc' = "svcUpdate"
  /\ Install(ApplyPrompt(This, svcUpdateCurrentPrompt(buffer, currentPrompt,
                                                      inConfigMode)))
  /\ UNCHANGED <<impl, calls, deleted, chunks, ghostVars, fnOut, fnIn>>

NextPure ==
  \/ Extract
  \/ SvcExtract
  \/ Update
  \/ SvcUpdate

SpecPure == InitPure /\ [][NextPure]_vars

(***************************************************************************)
(* The formatter on its own: every run formats one response.               *)
(***************************************************************************)
\* s.padEnd(w)
RECURSIVE PadEnd(_, _)
PadEnd(s, w) == IF Len(s) >= w THEN s ELSE PadEnd(s \o " ", w)

\* the texts of at most n lines, each the layout Line(r) of an element r of
\* Rows, with the elements laid out
RECURSIVE RowSeqs(_, _)
RowSeqs(Rows, n) ==
  IF n = 0 THEN {<<>>}
  ELSE LET R == RowSeqs(Rows, n - 1)
       IN  R \cup {Append(rs, r) : rs \in R, r \in Rows}

\* the head of the output of 'show mac address-table': title, rule, column
\* names, and the separator row that opens the data section
MacHead ==
  "Mac Address Table\n"
  \o "------------------------------------------\n"
  \o "Vlan   Mac Address      Type      Ports       State\n"
  \o "----   --------------   -------   ---------   -----\n"

MacFields == <<"vlan", "macAddress", "type", "port", "state">>

\* entries of a MAC address table
MacRows ==
  {[vlan |-> "1", macAddress |-> "aabb.ccdd.eeff", type |-> "dynamic",
    port |-> "GPON 0/1:1", state |-> "active"],
   [vlan |-> "200", macAddress |-> "aabb.ccdd.ee00", type |-> "static",
    port |-> "GE1", state |-> "active"]}

\* the line of the fixed layout that shows an entry
MacLine(row) ==
  PadEnd(row.vlan, 7) \o PadEnd(row.macAddress, 17) \o PadEnd(row.type, 10)
  \o PadEnd(row.port, 12) \o row.state \o "\n"

RECURSIVE MacLines(_)
MacLines(rows) ==
  IF rows = <<>> THEN ""
  ELSE MacLine(rows[1]) \o MacLines(SubSeq(rows, 2, Len(rows)))

MacInputs ==
  {[kind |-> "mac", command |-> "show mac address-table", fields |-> MacFields,
    rows |-> rows, response |-> MacHead \o MacLines(rows) \o total] :
     rows \in RowSeqs(MacRows, MaxRows),
     total \in {"", "Total Addresses Found: 3\n"}}

\* shapes of a table: the field names and the width of each column, the
\* gap to the next column included
TableShapes ==
  {[fields |-> <<"ID", "NAME">>, widths |-> <<4, 6>>],
   [fields |-> <<"ID", "NAME">>, widths |-> <<3, 6>>]}

\* data rows of a table with two columns
TableRows == {<<"1", "bob">>, <<"22", "al">>}

\* the line that shows cells under the columns of widths
RECURSIVE TableLine(_, _)
TableLine(cells, widths) ==
  IF cells = <<>> THEN "\n"
  ELSE IF Len(cells) = 1 THEN cells[1] \o "\n"
  ELSE PadEnd(cells[1], widths[1])
       \o TableLine(SubSeq(cells, 2, Len(cells)),
                    SubSeq(widths, 2, Len(widths)))

RECURSIVE TableLines(_, _)
TableLines(rows, widths) ==
  IF rows = <<>> THEN ""
  ELSE TableLine(rows[1], widths)
       \o TableLines(SubSeq(rows, 2, Len(rows)), widths)

\* n times the character ch
RECURSIVE Repeat(_, _)
Repeat(ch, n) == IF n = 0 THEN "" ELSE ch \o Repeat(ch, n - 1)

\* a separator line drawn across the table
Rule(ch, n) == Repeat(ch, n) \o "\n"

\* a separator line drawn under each field name
RECURSIVE ColumnRules(_, _, _)
ColumnRules(ch, fields, widths) ==
  IF fields = <<>> THEN "\n"
  ELSE IF Len(fields) = 1 THEN Repeat(ch, Len(fields[1])) \o "\n"
  ELSE PadEnd(Repeat(ch, Len(fields[1])), widths[1])
       \o ColumnRules(ch, SubSeq(fields, 2, Len(fields)),
                      SubSeq(widths, 2, Len(widths)))

RECURSIVE Sum(_)
Sum(ws) == IF ws = <<>> THEN 0 ELSE ws[1] + Sum(SubSeq(ws, 2, Len(ws)))

TableInputs ==
  {[kind |-> "table", command |-> "show vlan table", fields |-> sh.fields,
    rows |-> rows, widths |-> sh.widths, across |-> across,
    response |-> TableLine(sh.fields, sh.widths)
                 \o (IF across THEN Rule(ch, Sum(sh.widths))
                     ELSE ColumnRules(ch, sh.fields, sh.widths))
                 \o TableLines(rows, sh.widths)] :
     sh \in TableShapes, ch \in {"-", "="}, across \in BOOLEAN,
     rows \in RowSeqs(TableRows, MaxRows)}

\* commands of every class of formatResponse, and commands of none
DispatchCommands ==
  {"show mac address-table", "show interface gpon 0/1", "show int g1",
   "show running-config", "show onu info", "show vlan table", "show table",
   "show ip route table", "show version", "show", "configure terminal",
   "exit"}

DispatchInputs ==
  {[kind |-> "text", command |-> c, fields |-> <<>>, rows |-> <<>>,
    response |-> r] :
     c \in DispatchCommands, r \in {"a b\nc d\n", "ok\r\n\f", "a\n"}}

InitFormatter ==
  /\ impl = "index"
  /\ InitSession
  /\ fnPc = "in"
  /\ fnOut = ""
  /\ fnIn \in MacInputs \cup TableInputs \cup DispatchInputs

\* responseFormatter.formatResponse(command, response)
FormatResponse ==
  /\ fnPc = "in"
  /\ fnPc' = "format"
  /\ fnOut' = formatResponse(fnIn.command, fnIn.response)
  /\ UNCHANGED <<engineVars, envVars, ghostVars, fnIn>>

SpecFormatter == InitFormatter /\ [][FormatResponse]_vars

(***************************************************************************)
(* Properties.                                                             *)
(***************************************************************************)
\* the longest of the four prompts that the text ends with
PromptHits(text) == {i \in 1..Len(prompts) : EndsWith(text, prompts[i])}

LongestPrompt(text) ==
  prompts[CHOOSE i \in PromptHits(text) :
            \A j \in PromptHits(text) : Len(prompts[j]) <= Len(prompts[i])]

FailurePhrases == {failureMessages[i] : i \in 1..Len(failureMessages)}

\* C1: on a fresh session, when the device sends a login prompt, then
\* 'Password:', then text ending in '#', the data event that completes the
\* '#' resolves connect and leaves connected, loggedIn and currentPrompt =
\* '#'; the writes of the login were the username once and then the
\* password once
C1_LoginSuccess ==
  [][(loginTrace = "LP" /\ loginTrace' = "LPS") =>
       /\ connectPromise.st = "pending"
       /\ connectPromise'.st = "resolved"
       /\ connected' /\ loggedIn' /\ currentPrompt' = "#"
       /\ loginWrites = <<Username \o "\n", Password \o "\n">>
       /\ out' = <<>>]_vars

C1_Witness ==
  /\ loginTrace = "LPS"
  /\ connectPromise.st = "resolved"
  /\ connected /\ loggedIn /\ currentPrompt = "#"

\* C2: while not logged in and connect is pending, a data event that is one
\* of the four failure phrases rejects connect with the authentication
\* error and leaves loggedIn false; a rejected connect stays rejected
C2_LoginRejected ==
  /\ [][\A d \in FailurePhrases :
          (~loggedIn /\ connectPromise.st = "pending" /\ Receive(d)) =>
            /\ connectPromise'.st = "rejected"
            /\ connectPromise'.val = ErrAuth
            /\ ~loggedIn']_vars
  /\ [][connectPromise.st = "rejected" =>
          connectPromise'.st = "rejected"]_vars

C2_Witness ==
  /\ loginWrites = <<Username \o "\n", Password \o "\n">>
  /\ connectPromise.st = "rejected"
  /\ connectPromise.val = ErrAuth
  /\ ~loggedIn

\* C3: every connect that is pending eventually resolves or fails, whatever
\* the device does (the connection timer fires when its window ends unless
\* it was cancelled)
C3_ConnectSettles ==
  (connectPromise.st = "pending") ~> (connectPromise.st # "pending")

\* C4: with one command at a time, every sendCommand that is pending
\* eventually resolves or fails, whatever the device does and however the
\* earlier commands ended (every command timer fires when its window ends
\* unless it was cancelled)
C4_CommandSettles ==
  \A i \in 1..MaxCmds :
     (Len(cmds) >= i /\ cmds[i].st = "pending")
       ~> (Len(cmds) >= i /\ cmds[i].st # "pending")

\* the fields the no-active-session failure leaves alone are the same in t
\* as in the current state, and t wrote nothing
Untouched(t) ==
  /\ t.out = <<>>
  /\ t.lastCommand = lastCommand
  /\ t.buffer = buffer
  /\ t.waitingForResponse = waitingForResponse
  /\ t.accumulatedResponse = accumulatedResponse
  /\ t.pageCount = pageCount
  /\ t.inConfigMode = inConfigMode
  /\ t.currentPrompt = currentPrompt

\* C5: in every state where the session is not both connected and logged
\* in, sendCommand, enterEnableMode and enterConfigMode fail with the
\* no-active-session error, write nothing and leave lastCommand, buffer,
\* waitingForResponse, the pagination state, inConfigMode and currentPrompt
\* unchanged
C5_NoActiveSession ==
  ~Active =>
    /\ \A command \in Commands \cup {"enable", "configure terminal"} :
         LET t == sendCommand(This, command)
         IN  /\ t.settled = [cmd |-> Len(cmds) + 1, st |-> "rejected",
                             val |-> ErrNoSession]
             /\ Untouched(t)
    /\ LET r == enterEnableMode(NewCall("enable", ""), This, 1)
       IN  /\ r.t.answered.message = ErrNoSession
           /\ ~r.t.answered.success
           /\ r.t.cmds = cmds
           /\ Untouched(r.t)
    /\ \A command \in Commands :
         LET r == enterConfigMode(NewCall("sendCfg", command), This, 1)
         IN  /\ r.t.answered.message = ErrNoSession
             /\ ~r.t.answered.success
             /\ r.t.cmds = cmds
             /\ Untouched(r.t)

C5_Witness ==
  /\ ~Active
  /\ settled.st = "rejected"
  /\ settled.val = ErrNoSession
  /\ out = <<>>
  /\ waitingForResponse
  /\ pageCount > 0

\* C6: sendCommand is never started (its command written, its promise
\* pending) on a session whose waitingForResponse is already true
C6_OneInFlight ==
  [][(Len(cmds') > Len(cmds) /\ cmds'[Len(cmds')].st = "pending") =>
       ~waitingForResponse]_vars

\* what extractCommandResponse is to return for the buffer: the text after
\* the echo and without markers, cut before the longest prompt it ends with
ExpectedResponse(buf, lastCmd) ==
  LET text == Trim(StripMore(StripEcho(buf, lastCmd)))
  IN  IF PromptHits(text) = {} THEN text
      ELSE Trim(Substring(text, 0, Len(text) - Len(LongestPrompt(text))))

\* C7: for a buffer that ends in one of the four prompts,
\* extractCommandResponse returns the text with the longest matching prompt
\* suffix and everything after it removed
C7_PromptStripped ==
  (fnPc = "extract" /\ detectCommandPrompt(buffer)) =>
    fnOut = ExpectedResponse(buffer, lastCommand)

\* C8: for a buffer whose trimmed text ends in one of the four prompts,
\* updateCurrentPrompt sets currentPrompt to the longest prompt that is a
\* suffix of it, and inConfigMode becomes true for the two config prompts
C8_LongestPrompt ==
  (fnPc = "update" /\ detectCommandPrompt(buffer)) =>
    /\ currentPrompt = LongestPrompt(Trim(buffer))
    /\ currentPrompt \in {"(config)#", "(config-if)#"} => inConfigMode

C8_Witness ==
  /\ fnPc = "update"
  /\ EndsWith(Trim(buffer), "(config)#")
  /\ currentPrompt = "(config)#"
  /\ inConfigMode

\* C9: in the module of src/services, the data event that completes a
\* command with the device prompt '(config)#' leaves getStatus() with
\* currentPrompt = '(config)#' and inConfigMode = true
C9_ConfigPromptReported ==
  [][(loggedIn /\ waitingForResponse /\ Receive("(config)#")) =>
       /\ settled'.st = "resolved"
       /\ currentPrompt' = "(config)#"
       /\ inConfigMode']_vars

\* C10: when the response to a command arrives as pages of text with a
\* marker after each but the last, and then a prompt, the command resolves
\* with the concatenation of the pages (trimmed), one space was written per
\* marker, and the buffer is empty
C10_PagesAssembled ==
  [][(pgTrace.st = "page" /\ pgTrace'.st = "done") =>
       /\ settled'.st = "resolved"
       /\ settled'.val = Trim(pgTrace.text)
       /\ spaces = pgTrace.k
       /\ buffer' = ""]_vars

\* C11: when a marker arrives with the page counter at the ceiling, nothing
\* is written (100 spaces were written for the command), the command
\* resolves with the accumulated page texts, no marker in them, and
\* afterwards waitingForResponse is false and the page counter and the
\* accumulator are reset
C11_Ceiling ==
  [][(loggedIn /\ waitingForResponse /\ pageCount = maxPages
      /\ Receive(MoreMarker)) =>
       /\ out' = <<>>
       /\ spaces = maxPages
       /\ settled'.st = "resolved"
       /\ ~Includes(settled'.val, MoreMarker)
       /\ ~waitingForResponse'
       /\ pageCount' = 0
       /\ accumulatedResponse' = ""]_vars

\* C12: when the timer of a pending command fires, the command resolves if
\* the accumulator is non-empty and otherwise fails with the command-timeout
\* error; either way waitingForResponse becomes false and the resolver, the
\* accumulator and the page counter are cleared
C12_TimeoutOutcome ==
  [][\A i \in 1..Len(cmds) :
       (cmds[i].st = "pending" /\ CommandTimeout(i)) =>
         /\ settled'.cmd = i
         /\ IF accumulatedResponse # ""
            THEN settled'.st = "resolved"
            ELSE settled'.st = "rejected" /\ settled'.val = ErrCommandTimeout
         /\ ~waitingForResponse'
         /\ responseResolver' = 0
         /\ accumulatedResponse' = ""
         /\ pageCount' = 0]_vars

\* the prompts the device may send in one data event
PromptTexts == {prompts[i] : i \in 1..Len(prompts)}

\* C13: while a command is in flight, a data event 'Password:' that leaves
\* neither a prompt nor a marker in the buffer makes the engine write the
\* enable password and clear the buffer when the last command is an enable
\* or configure-terminal command, and write nothing otherwise; either way
\* the command stays in flight; a prompt that follows the password resolves
\* the command
C13_EnablePassword ==
  /\ [][(loggedIn /\ waitingForResponse /\ Receive(PasswordPrompt)
         /\ ~detectCommandPrompt(buffer \o PasswordPrompt)
         /\ ~Includes(buffer \o PasswordPrompt, MoreMarker)) =>
          /\ IF Includes(lastCommand, "enable")
                \/ Includes(lastCommand, "configure terminal")
             THEN out' = <<enablePassword \o "\n">> /\ buffer' = ""
             ELSE out' = <<>>
          /\ waitingForResponse'
          /\ responseResolver' = responseResolver
          /\ cmds' = cmds]_vars
  /\ [][\A d \in PromptTexts :
          (loggedIn /\ waitingForResponse
           /\ out = <<enablePassword \o "\n">> /\ Receive(d)) =>
            /\ settled'.st = "resolved"
            /\ settled'.cmd = responseResolver
            /\ ~waitingForResponse']_vars

C13_Witness ==
  /\ loggedIn /\ waitingForResponse
  /\ lastCommand = "configure terminal"
  /\ out = <<EnablePassword \o "\n">>
  /\ buffer = ""
  /\ cmds[responseResolver].st = "pending"

\* C14: a connect or a sendCommand that is pending when the socket has
\* failed or closed does not resolve successfully afterwards
C14_SocketFailureFails ==
  [][(sock = "errored" \/ sock = "closed") =>
       /\ (connectPromise.st = "pending" => connectPromise'.st # "resolved")
       /\ \A i \in 1..Len(cmds) :
            (cmds[i].st = "pending" => cmds'[i].st # "resolved")]_vars

\* C15: right after the 'close' event is handled, connected, loggedIn and
\* inConfigMode are all false
C15_CloseResets ==
  [][SocketClose => (~connected' /\ ~loggedIn' /\ ~inConfigMode')]_vars

C15_Witness ==
  /\ sock = "closed"
  /\ ~connected /\ ~loggedIn /\ ~inConfigMode
  /\ waitingForResponse
  /\ \E i \in 1..Len(cmds) :
        cmds[i].command = "configure terminal" /\ cmds[i].st = "resolved"

\* C16: in every state, inConfigMode implies loggedIn
C16_ConfigImpliesLoggedIn == inConfigMode => loggedIn

\* C17: on an active session enterEnableMode returns the sentinel, writing
\* nothing and sending no command, when currentPrompt is '#' or inConfigMode
\* is true; otherwise it writes 'enable' as one sendCommand and awaits it,
\* and its continuation returns that command's outcome and sends nothing
\* more
C17_EnableMode ==
  /\ [](Active =>
          LET r == enterEnableMode(NewCall("enable", ""), This, 1)
          IN  IF currentPrompt = "#" \/ inConfigMode
              THEN /\ r.call.st = "done"
                   /\ r.t.answered.success
                   /\ r.t.answered.message = AlreadyEnabled
                   /\ r.t.out = <<>>
                   /\ r.t.cmds = cmds
              ELSE /\ r.call.st = "pending"
                   /\ r.call.cmd = Len(cmds) + 1
                   /\ r.t.out = <<"enable\n">>
                   /\ Len(r.t.cmds) = Len(cmds) + 1
                   /\ r.t.cmds[Len(cmds) + 1].command = "enable"
                   /\ r.t.cmds[Len(cmds) + 1].st = "pending")
  /\ [][\A k \in 1..Len(calls) :
          (calls[k].kind = "enable" /\ Resume(k)) =>
            /\ calls'[k].st = "done"
            /\ answered'.call = k
            /\ answered'.success = (cmds[calls[k].cmd].st = "resolved")
            /\ out' = <<>>
            /\ Len(cmds') = Len(cmds)]_vars

C17_Witness ==
  /\ Active
  /\ inConfigMode
  /\ answered.success
  /\ answered.message = AlreadyEnabled
  /\ calls[answered.call].kind = "enable"
  /\ out = <<>>

\* the step writes text to the socket
Writes(text) == \E j \in 1..Len(out') : out'[j] = text

\* C18: enterConfigMode called on an active session at prompt '>' with
\* inConfigMode false writes 'enable' and awaits it; its continuation
\* writes 'configure terminal' when that command resolved, and fails
\* without writing when it failed; 'configure terminal' is written only at
\* prompt '#' or by the continuation of a resolved 'enable'; with
\* inConfigMode true enterConfigMode writes nothing
C18_Escalation ==
  /\ [][\A command \in Commands :
          (Active /\ currentPrompt = ">" /\ ~inConfigMode
           /\ RequestWithin("sendCfg", command, MaxModeCmds)) =>
            /\ out' = <<"enable\n">>
            /\ calls'[Len(calls')].pc = "cfgEnable"]_vars
  /\ [][\A k \in 1..Len(calls) :
          (calls[k].pc = "cfgEnable" /\ Resume(k)) =>
            IF cmds[calls[k].cmd].st = "resolved"
            THEN /\ cmds'[Len(cmds')].command = "configure terminal"
                 /\ Active => out' = <<"configure terminal\n">>
                 /\ calls'[k].pc = "cfgConf"
            ELSE /\ out' = <<>>
                 /\ Len(cmds') = Len(cmds)
                 /\ calls'[k].st = "done"
                 /\ answered'.call = k
                 /\ ~answered'.success]_vars
  /\ [][Writes("configure terminal\n") =>
          \/ currentPrompt = "#"
          \/ \E k \in 1..Len(calls) :
                /\ calls[k].pc = "cfgEnable"
                /\ cmds[calls[k].cmd].command = "enable"
                /\ cmds[calls[k].cmd].st = "resolved"]_vars
  /\ []((Active /\ inConfigMode) =>
          \A command \in Commands :
             LET r == enterConfigMode(NewCall("sendCfg", command), This, 1)
             IN  /\ r.call.pc = "returned"
                 /\ r.t.out = <<>>
                 /\ r.t.cmds = cmds)

C18_Witness ==
  /\ out = <<"configure terminal\n">>
  /\ Len(cmds) >= 2
  /\ cmds[Len(cmds) - 1].command = "enable"
  /\ cmds[Len(cmds) - 1].st = "resolved"
  /\ \E k \in 1..Len(calls) :
        calls[k].pc = "cfgConf" /\ calls[k].cmd = Len(cmds)

\* the step in which enterConfigMode hands 'configure terminal' to the socket
IssuesConfigure ==
  /\ Writes("configure terminal\n")
  /\ \E k \in 1..Len(calls') :
        /\ calls'[k].pc = "cfgConf"
        /\ k > Len(calls) \/ calls[k].pc # "cfgConf"

\* C19: whenever enterConfigMode writes 'configure terminal' to the socket,
\* currentPrompt is '#' at that moment
C19_PrivilegedFirst == [][IssuesConfigure => currentPrompt = "#"]_vars

\* C20: inConfigMode is true from the moment enterConfigMode writes
\* 'configure terminal' to the socket
C20_OptimisticFlag == [][IssuesConfigure => inConfigMode']_vars

\* C21: disconnect on a connected session writes 'exit' twice if
\* inConfigMode and once otherwise, closes the socket, and leaves every
\* field of the session zeroed, the command in flight and the pagination
\* state included
C21_DisconnectZeroes ==
  [][(connected /\ CallDisconnect) =>
       /\ out' = (IF inConfigMode THEN <<"exit\n", "exit\n">>
                                  ELSE <<"exit\n">>)
       /\ sock' = "ended"
       /\ ~connected' /\ ~loggedIn' /\ ~inConfigMode'
       /\ currentPrompt' = ""
       /\ buffer' = ""
       /\ ~waitingForResponse'
       /\ responseResolver' = 0
       /\ accumulatedResponse' = ""
       /\ pageCount' = 0]_vars

\* C22: disconnect called on a session that is not connected writes
\* nothing, does not close the socket and changes no field; called right
\* after a disconnect that closed a connected session, or on an engine that
\* never connected, it leaves connected, loggedIn and inConfigMode false
C22_Idempotent ==
  /\ [][(~connected /\ CallDisconnect) =>
          /\ out' = <<>>
          /\ sock' = sock
          /\ UNCHANGED <<engineVars, connTimer, connectPromise, cmds>>]_vars
  /\ [][(((disconnects = 1 /\ out # <<>>) \/ sock = "null"
          \/ sock = "connecting")
         /\ CallDisconnect) =>
          /\ out' = <<>>
          /\ sock' = sock
          /\ ~connected' /\ ~loggedIn' /\ ~inConfigMode']_vars

C22_Witness ==
  /\ disconnects = 2
  /\ sock = "ended"
  /\ out = <<>>
  /\ ~connected /\ ~loggedIn /\ ~inConfigMode
  /\ buffer = "" /\ currentPrompt = ""

\* C23: when the formatter throws on the text of a completed command, at a
\* prompt or on the timeout of a command with accumulated pages, the step
\* still resolves that command's promise, with the raw text
C23_FormatterRecovered ==
  [][formatted' = "threw" =>
       /\ settled'.st = "resolved"
       /\ settled'.cmd \in 1..Len(cmds)
       /\ cmds[settled'.cmd].st = "pending"
       /\ cmds'[settled'.cmd].st = "resolved"]_vars

C23_Witness ==
  /\ formatted = "threw"
  /\ settled.st = "resolved"
  /\ cmds[settled.cmd].st = "resolved"
  /\ cmds[settled.cmd].timer = "cancelled"

\* values the two passwords may take in another run, none of them a value
\* of this run
SecretValues == {"#", "Password:"}

\* the session t of a run whose passwords are pw and en
WithSecrets(t, pw, en) ==
  [t EXCEPT !.password = pw,
            !.enablePassword = IF @ = "" THEN "" ELSE en]

\* what of a handler's result is state, message or answer: all but the
\* passwords held and the text written to the socket
Low(t) == [t EXCEPT !.password = "", !.enablePassword = "", !.out = <<>>]

IsShow(command) == StartsWith(command, "show ")

\* the extractor of the first class the command belongs to, the classes
\* being, in order: MAC address table, interface show, running-config, ONU
\* show, show commands that contain 'table', other show commands
FirstClass(command) ==
  IF Includes(command, "show mac address-table") THEN "formatMacAddressTable"
  ELSE IF Includes(command, "show interface") \/ MatchShowInt(command)
  THEN "formatInterfaceInfo"
  ELSE IF Includes(command, "show running-config") THEN "formatRunningConfig"
  ELSE IF Includes(command, "show onu") THEN "formatOnuInfo"
  ELSE IF IsShow(command) /\ Includes(command, "table")
  THEN "formatGenericTable"
  ELSE IF IsShow(command) THEN "detectAndFormatTable"
  ELSE "none"

\* C25: the result of formatResponse is the result of the extractor of the
\* first class the command belongs to, and for a command of no class it has
\* no data and the cleaned text as raw and formatted
C25_Dispatch ==
  fnPc = "format" =>
    /\ fnOut = Extractor(FirstClass(fnIn.command), fnIn.response)
    /\ FirstClass(fnIn.command) = "none" =>
         /\ ~fnOut.hasData
         /\ fnOut.raw = cleanResponse(fnIn.response)
         /\ fnOut.formatted = cleanResponse(fnIn.response)

\* C26: from a response made of a header line of field names, a separator
\* line and N aligned data rows, the generic table extractor returns N
\* records in row order, each mapping every field name to the row's cell
C26_TableRoundTrip ==
  (fnPc = "format" /\ fnIn.kind = "table") =>
    /\ fnOut.hasData
    /\ fnOut.data = [i \in 1..Len(fnIn.rows) |->
                       Row(fnIn.fields, fnIn.rows[i])]

\* C27: from the fixed layout of 'show mac address-table' with N data rows,
\* the result has N entries in row order, each with its five fields not
\* empty and a port 'GPON <n>' kept as one field; title, column names,
\* separators and the total line give no entry
C27_MacTable ==
  (fnPc = "format" /\ fnIn.kind = "mac") =>
    /\ fnOut.by = "formatMacAddressTable"
    /\ Len(fnOut.data) = Len(fnIn.rows)
    /\ fnOut.data = fnIn.rows
    /\ \A i \in 1..Len(fnOut.data) : \A j \in 1..Len(MacFields) :
          fnOut.data[i][MacFields[j]] # ""

C27_Witness ==
  /\ fnPc = "format"
  /\ fnIn.kind = "mac"
  /\ Len(fnIn.rows) = 3
  /\ Includes(fnIn.response, "Total Addresses Found")
  /\ \E i \in 1..3 : fnOut.data[i].port = "GPON 0/1:1"
  /\ \E i \in 1..3 : fnOut.data[i].port = "GE1"

\* C28: a send-command request with configMode true on a session not in
\* config mode writes the requested command only once 'configure terminal'
\* has resolved; when a command of enterConfigMode fails the request writes
\* nothing more and answers with a failure; a request without configMode, or
\* on a session in config mode, writes no 'enable' and no 'configure
\* terminal'
C28_ConfigModeFlag ==
  /\ [][\A command \in Commands :
          (~inConfigMode
           /\ RequestWithin("sendCfg", command, MaxModeCmds)) =>
            ~Writes(command \o "\n")]_vars
  /\ [][\A k \in 1..Len(calls) :
          (calls[k].kind = "sendCfg" /\ Resume(k)) =>
            /\ Writes(calls[k].command \o "\n") =>
                 /\ calls[k].pc = "cfgConf"
                 /\ cmds[calls[k].cmd].command = "configure terminal"
                 /\ cmds[calls[k].cmd].st = "resolved"
            /\ (calls[k].pc \in {"cfgEnable", "cfgConf"}
                /\ cmds[calls[k].cmd].st = "rejected") =>
                 /\ out' = <<>>
                 /\ Len(cmds') = Len(cmds)
                 /\ calls'[k].st = "done"
                 /\ answered'.call = k
                 /\ ~answered'.success]_vars
  /\ [][\A command \in Commands :
          (RequestWithin("send", command, MaxModeCmds)
           \/ (inConfigMode
               /\ RequestWithin("sendCfg", command, MaxModeCmds))) =>
            /\ ~Writes("enable\n")
            /\ ~Writes("configure terminal\n")
            /\ calls'[Len(calls')].pc \in {"cmd", "done"}]_vars
  /\ [][\A k \in 1..Len(calls) :
          (calls[k].pc = "cmd" /\ Resume(k)) =>
            out' = <<>> /\ calls'[k].st = "done"]_vars

C28_Witness ==
  /\ inConfigMode
  /\ out = <<"show\n">>
  /\ Len(cmds) >= 2
  /\ cmds[Len(cmds)].st = "pending"
  /\ cmds[Len(cmds) - 1].command = "configure terminal"
  /\ cmds[Len(cmds) - 1].st = "resolved"
  /\ \E k \in 1..Len(calls) :
        /\ calls[k].kind = "sendCfg"
        /\ calls[k].pc = "cmd"
        /\ calls[k].cmd = Len(cmds)

\* the 0-based positions at which cmd occurs in text
Occurrences(text, cmd) ==
  {i \in 0..(Len(text) - Len(cmd)) : Substring(text, i, i + Len(cmd)) = cmd}

\* the 0-based positions of the newlines of text at or after the first
\* occurrence of cmd
EchoNewlines(text, cmd) ==
  {n \in 0..(Len(text) - 1) :
     /\ CharAt(text, n) = "\n"
     /\ \E i \in Occurrences(text, cmd) : i <= n}

\* text contains cmd followed somewhere by a newline
HasEcho(text, cmd) == EchoNewlines(text, cmd) # {}

\* what follows the first newline after the first occurrence of cmd
AfterEcho(text, cmd) ==
  LET n == CHOOSE m \in EchoNewlines(text, cmd) :
             \A k \in EchoNewlines(text, cmd) : m <= k
  IN  SubstringFrom(text, n + 1)

\* the response val holds nothing of text up to the end of the echo line:
\* it is no longer than what follows that line, and holds the command only
\* if what follows holds it
EchoGone(text, cmd, val) ==
  /\ Len(val) <= Len(AfterEcho(text, cmd))
  /\ Includes(val, cmd) => Includes(AfterEcho(text, cmd), cmd)

\* C29: when a command resolves and the text received for it (the pages
\* accumulated and the buffer) contains lastCommand followed somewhere by a
\* newline, the resolved response holds nothing up to and including the
\* first newline after the first occurrence of lastCommand
C29_EchoStripped ==
  /\ [][\A d \in Echo \cup PagingVocabulary :
          (/\ loggedIn /\ waitingForResponse
           /\ Receive(d)
           /\ settled'.st = "resolved"
           /\ HasEcho(accumulatedResponse \o buffer \o d, lastCommand)) =>
            EchoGone(accumulatedResponse \o buffer \o d, lastCommand,
                     settled'.val)]_vars
  /\ [][\A i \in 1..Len(cmds) :
          (/\ CommandTimeout(i)
           /\ settled'.st = "resolved"
           /\ HasEcho(accumulatedResponse, lastCommand)) =>
            EchoGone(accumulatedResponse, lastCommand, settled'.val)]_vars

\* the same, but for the resolutions of the pagination-ceiling abort
C29_EchoStrippedBelowCeiling ==
  /\ [][\A d \in Echo \cup PagingVocabulary :
          (/\ loggedIn /\ waitingForResponse
           /\ ~(pageCount = maxPages /\ d = MoreMarker)
           /\ Receive(d)
           /\ settled'.st = "resolved"
           /\ HasEcho(accumulatedResponse \o buffer \o d, lastCommand)) =>
            EchoGone(accumulatedResponse \o buffer \o d, lastCommand,
                     settled'.val)]_vars
  /\ [][\A i \in 1..Len(cmds) :
          (/\ CommandTimeout(i)
           /\ settled'.st = "resolved"
           /\ HasEcho(accumulatedResponse, lastCommand)) =>
            EchoGone(accumulatedResponse, lastCommand, settled'.val)]_vars

\* extractCommandResponse on its own: for a buffer that contains lastCommand
\* followed by a newline, the result is what the later steps of the
\* extraction make of the text after the echo line
C29_ExtractAfterEcho ==
  (fnPc = "extract" /\ HasEcho(buffer, lastCommand)) =>
    fnOut = Trim(StripPrompt(StripMore(AfterEcho(buffer, lastCommand))))

\* C30: a data event that resolves a command (at a prompt, with or without
\* accumulated pages, or by the pagination-ceiling abort) leaves that
\* command's timer cancelled, and the timer callback of a command that is
\* already settled changes nothing of the engine and settles nothing
C30_TimerCancelled ==
  /\ [][\A d \in PagingVocabulary :
          (/\ loggedIn /\ waitingForResponse
           /\ Receive(d)
           /\ settled'.st = "resolved") =>
            cmds'[settled'.cmd].timer = "cancelled"]_vars
  /\ [][\A i \in 1..Len(cmds) :
          (cmds[i].st # "pending" /\ CommandTimeout(i)) =>
            /\ UNCHANGED engineVars
            /\ settled' = NoSettle
            /\ \A j \in 1..Len(cmds) : cmds'[j].st = cmds[j].st]_vars

\* the resolutions at a prompt alone: they leave the command's timer
\* cancelled; and the callback of a stale timer settles no promise
C30_TimerCancelledAtPrompt ==
  /\ [][\A d \in PagingVocabulary :
          (/\ loggedIn /\ waitingForResponse
           /\ ~(pageCount = maxPages /\ d = MoreMarker)
           /\ Receive(d)
           /\ settled'.st = "resolved") =>
            cmds'[settled'.cmd].timer = "cancelled"]_vars
  /\ [][\A i \in 1..Len(cmds) :
          (cmds[i].st # "pending" /\ CommandTimeout(i)) =>
            /\ settled' = NoSettle
            /\ \A j \in 1..Len(cmds) : cmds'[j].st = cmds[j].st]_vars

\* C31: in every state where no command is in flight the pagination
\* accumulator is empty and the page counter is 0
C31_AccumulatorLifecycle ==
  ~waitingForResponse => (accumulatedResponse = "" /\ pageCount = 0)

\* the accumulator alone: it is empty whenever no command is in flight
C31_AccumulatorEmpty ==
  ~waitingForResponse => accumulatedResponse = ""

\* the buffer b matches none of the recognition rules of the phase the
\* session t is in
Unrecognized(t, b) ==
  IF ~t.loggedIn
  THEN /\ \A p \in LoginPrompts : ~Includes(b, p)
       /\ ~Includes(b, PasswordPrompt)
       /\ \A i \in 1..Len(successPrompts) :
             ~EndsWith(Trim(b), successPrompts[i])
       /\ \A i \in 1..Len(failureMessages) : ~Includes(b, failureMessages[i])
  ELSE IF t.waitingForResponse
  THEN /\ \A i \in 1..Len(prompts) : ~EndsWith(Trim(b), prompts[i])
       /\ ~Includes(b, MoreMarker)
       /\ ~(/\ Includes(b, PasswordPrompt)
            /\ \/ Includes(t.lastCommand, "enable")
               \/ Includes(t.lastCommand, "configure terminal"))
  ELSE TRUE

\* C32: from every state, a data event whose resulting buffer matches none
\* of the recognition rules of the current phase, and any data event of a
\* logged-in session with no command in flight, writes nothing, settles
\* nothing and changes nothing of the session but the buffer, to which the
\* data is appended
C32_OnlyAccumulates ==
  \A d \in LoginVocabulary \cup CommandVocabulary \cup Echo :
     Unrecognized(This, buffer \o d) =>
       handleData(This, d) = [This EXCEPT !.buffer = buffer \o d]

C32_Witness ==
  /\ loggedIn
  /\ waitingForResponse
  /\ lastCommand = "show"
  /\ buffer = "a\n"
  /\ out = <<>>
  /\ settled = NoSettle

\* C33: in every state of a session, loggedIn implies connected
C33_LoggedInImpliesConnected ==
  loggedIn => connected

\* C34: when the timer of a command that has already settled fires while a
\* later command is in flight, the later command keeps waitingForResponse,
\* its resolver and its pagination state, and is not settled
C34_TimerOfItsCommand ==
  [][\A i \in 1..Len(cmds) :
       (/\ cmds[i].st # "pending"
        /\ waitingForResponse
        /\ \E j \in (i + 1)..Len(cmds) : cmds[j].st = "pending"
        /\ CommandTimeout(i)) =>
         /\ waitingForResponse'
         /\ UNCHANGED <<responseResolver, accumulatedResponse, pageCount>>
         /\ \A j \in 1..Len(cmds) : cmds'[j].st = cmds[j].st]_vars

\* C35: the device's answer to an earlier command that timed out, arriving
\* while a later command (of another text) is in flight, does not resolve
\* the later command
C35_Attribution ==
  [][\A i \in 1..Len(cmds) :
       (/\ loggedIn /\ waitingForResponse
        /\ cmds[i].st = "rejected"
        /\ cmds[i].err = ErrCommandTimeout
        /\ responseResolver > i
        /\ cmds[i].command # lastCommand
        /\ Receive(Reply(cmds[i].command))) =>
         settled'.st # "resolved"]_vars

\* the buffer b ends, once trimmed, in one of the two config-mode prompts
ConfigPrompt(b) ==
  EndsWith(Trim(b), "(config)#") \/ EndsWith(Trim(b), "(config-if)#")

\* C36: after a data event that resolves a command, inConfigMode is true
\* exactly when the prompt the buffer ends in is '(config)#' or
\* '(config-if)#'; with the prompt '#' or '>' it is false
C36_FlagFollowsPrompt ==
  [][\A d \in ModeVocabulary :
       (/\ loggedIn /\ waitingForResponse
        /\ Receive(d)
        /\ settled'.st = "resolved") =>
         (inConfigMode' <=> ConfigPrompt(buffer \o d))]_vars

\* the upward half alone: a command that resolves at a config-mode prompt
\* leaves inConfigMode true
C36_FlagRaised ==
  [][\A d \in ModeVocabulary :
       (/\ loggedIn /\ waitingForResponse
        /\ Receive(d)
        /\ settled'.st = "resolved"
        /\ ConfigPrompt(buffer \o d)) =>
         inConfigMode']_vars

\* C37: in every state where connect has failed, the socket is closed,
\* destroyed or failed and connected is false; and a session whose connect
\* has failed writes no credentials
C37_FailedConnectClosed ==
  /\ [](connectPromise.st = "rejected" =>
          /\ ~connected
          /\ sock \in {"closed", "destroyed", "errored"})
  /\ [][connectPromise.st = "rejected" =>
          /\ ~Writes(Username \o "\n")
          /\ ~Writes(Password \o "\n")]_vars

\* the failures by connect timeout and by socket error alone
C37_TimeoutAndErrorClosed ==
  [](/\ connectPromise.st = "rejected"
     /\ connectPromise.val \in {ErrConnectTimeout, ErrSocket}
     => /\ ~connected
        /\ sock \in {"closed", "destroyed", "errored"})

\* C38: the login username and password are written only while connect is
\* pending on an open socket of a session that was not disconnected, and
\* the enable password is written only while a command containing 'enable'
\* or 'configure terminal' is in flight
C38_CredentialPhases ==
  /\ [][(Writes(Username \o "\n") \/ Writes(Password \o "\n")) =>
          /\ connectPromise.st = "pending"
          /\ sock = "open"
          /\ disconnects = 0]_vars
  /\ [][Writes(EnablePassword \o "\n") =>
          /\ waitingForResponse
          /\ responseResolver # 0
          /\ cmds[responseResolver].st = "pending"
          /\ \/ Includes(cmds[responseResolver].command, "enable")
             \/ Includes(cmds[responseResolver].command,
                         "configure terminal")]_vars

\* the enable password alone
C38_EnablePasswordPhase ==
  [][Writes(EnablePassword \o "\n") =>
       /\ waitingForResponse
       /\ responseResolver # 0
       /\ cmds[responseResolver].st = "pending"
       /\ \/ Includes(cmds[responseResolver].command, "enable")
          \/ Includes(cmds[responseResolver].command,
                      "configure terminal")]_vars

\* C39: during one in-flight enable or configure-terminal command the
\* enable password is written at most once: in a state where the session
\* has just written it for the command in flight, no further data event
\* makes the session write it again
C39_EnablePasswordOnce ==
  (/\ out = <<EnablePassword \o "\n">>
   /\ loggedIn /\ waitingForResponse
   /\ responseResolver # 0
   /\ cmds[responseResolver].st = "pending") =>
     \A d \in ModeVocabulary :
        \A j \in 1..Len(DoHandleData(This, d).out) :
           DoHandleData(This, d).out[j] # EnablePassword \o "\n"

====
